---- MODULE Spec2Model ----
(***************************************************************************)
(* redenv: the secret-vault engine.                                        *)
(*                                                                         *)
(* The backing store holds one project: its metadata hash meta@project     *)
(* and one environment hash env:project whose fields are secret keys, each *)
(* holding a version history, newest first.  CLI commands and client       *)
(* calls run as processes whose store round trips interleave.              *)
(***************************************************************************)
EXTENDS Integers, Sequences, FiniteSets, TLC

(***************************************************************************)
(* Bounds of the model.                                                    *)
(***************************************************************************)
MaxWrites == 3
MaxLimit == 2
MaxTokens == 2
MaxRotations == 2
MaxTicks == 7
MaxWireLen == 5
MaxSignals == 2

(***************************************************************************)
(* Program constants.                                                      *)
(***************************************************************************)
DefaultHistoryLimit == 10

Procs == {"p1", "p2"}
Proc1 == "p1"
TProcs == {"q1", "q2"}
TProc1 == "q1"
SecretKeys == {"FOO"}
Plaintexts == {"bar", "baz"}
RaceKey == "FOO"
VaultPlaintext == "bar"
Passwords == {"pw12345!", "hunter2!!"}
OwnerPassword == "pw12345!"
CliUser == "cli-user"
\* the client instances of one process, all configured for the same
\* project and environment
Clients == {"c1", "c2"}
Project == "P"
Environment == "development"
\* options.cache of the clients, in seconds
CacheOptions == [ttl |-> 1, staleWhileRevalidate |-> 2]
\* the time that passes between two steps of a client, in milliseconds
Delays == {500}
\* the plugins a configuration loads
Plugins == {"studio", "sync"}
Plugin1 == "studio"
\* the time between two steps of the plugin loader: three hours
PluginDelays == {60 * 60 * 3 * 1000}

None == "none"

NoKey == <<>>

\* a numeric field that is not set
Undefined == -1

(***************************************************************************)
(* Crypto primitives.  A key derived by PBKDF2 is determined by the secret *)
(* and the salt; an AES-GCM ciphertext opens only under the key that made  *)
(* it; exportKey/importKey convert a key to and from its hex form.         *)
(***************************************************************************)
deriveKey(secret, salt) == <<"derived", secret, salt>>

generateRandomKey(r) == <<"pek", r>>

exportKey(key) == <<"hex", key>>

importKey(hex) == hex[2]

encrypt(plaintext, key, iv) == [iv |-> iv, key |-> key, pt |-> plaintext]

NoCt == [iv |-> 0, key |-> NoKey, pt |-> None]

\* decrypt throws on a wrong key: ok = FALSE stands for the thrown error
decrypt(ct, key) ==
    IF ct.iv # 0 /\ ct.key = key
    THEN [ok |-> TRUE, pt |-> ct.pt]
    ELSE [ok |-> FALSE, pt |-> None]

(***************************************************************************)
(* State.                                                                  *)
(***************************************************************************)
VARIABLES
    meta,       \* the hash meta@project
    env,        \* the hash env:project: secret key -> version history
    clock,      \* the time; also the fresh IV of the write made at that time
    rand,       \* source of fresh random values of credential commands
    proc,       \* the in-flight secret command of each process
    tproc,      \* the in-flight credential command of each process
    password,   \* the master password the owner currently knows
    pek0,       \* the PEK generated at registration
    issued,     \* token id -> the secret handed to the caller at issuance
    revoked,    \* token ids whose revocation has completed
    assigned,   \* every (key, record) a write has stored
    seqWrites,  \* key -> versions stored by sequential writes since absent
    overlapped, \* key -> some write since absent was not sequential
    limitMoved, \* key -> the history limit changed under the key's writes
    rival,      \* process -> a record stored by another writer after it read
    rotations,  \* password changes begun so far
    now,        \* the time (Date.now()), in milliseconds
    lru,        \* cache -> cache key -> the entry cached under it
    fetch,      \* the getFreshValue calls in flight, by client and kind
    gets,       \* client -> what its latest get observed and returned
    call,       \* a call of a helper on its own: arguments and result
    cli         \* process -> the module state of its plugin loader

vars == <<meta, env, clock, rand, proc, tproc, password, pek0, issued, revoked,
          assigned, seqWrites, overlapped, limitMoved, rival, rotations,
          now, lru, fetch, gets, call, cli>>

cacheVars == <<now, lru, fetch, gets, call, cli>>

keyGhosts == <<password, pek0, issued, revoked, rotations>>

storeGhosts == <<assigned, seqWrites, overlapped, limitMoved, rival>>

NoMeta == [exists |-> FALSE, encryptedPEK |-> NoCt, salt |-> 0,
           historyLimit |-> Undefined, serviceTokens |-> <<>>]

NoRec == [version |-> 0, value |-> NoCt, user |-> None, createdAt |-> 0]

IdleProc == [pc |-> "idle", op |-> None, key |-> None, value |-> None,
             pek |-> NoKey, user |-> None, to |-> 0, fetched |-> <<>>,
             history |-> <<>>, limit |-> 0, rec |-> NoRec, result |-> None]

NoEntry == [encryptedPEK |-> NoCt, salt |-> 0]

\* the plugin loader of a process that has loaded its plugins: no token
\* cached, none to clean up, no signal received
NoCli == [ephemeralTokenCache |-> <<>>, tokensToCleanup |-> <<>>,
          handlers |-> <<>>, exited |-> FALSE, swallowed |-> {}]

IdleTProc == [pc |-> "idle", op |-> None, pek |-> NoKey, id |-> None,
              plugin |-> None,
              secret |-> None, entry |-> NoEntry, ids |-> {},
              tokens |-> <<>>, newPassword |-> None, result |-> None]

\* redenv:project:environment
getCacheKey(project, environment) ==
    "redenv:" \o project \o ":" \o environment

CacheKeys == {getCacheKey(Project, Environment)}

NoCacheEntry == [present |-> FALSE, value |-> <<>>, createdTime |-> 0]

Kinds == {"blocking", "background"}

IdleFetch == [pc |-> "idle", pek |-> NoKey, cache |-> None, key |-> None]

NoGet == [observed |-> None, waiting |-> FALSE, served |-> None,
          map |-> <<>>]

\* no helper is called on its own
NoCall == [fn |-> None]

\* the project is not registered, no command runs, the caches are empty;
\* keys are the secret keys the commands will name
UnregisteredWith(keys) ==
    /\ meta = NoMeta
    /\ env = <<>>
    /\ clock = 0
    /\ rand = 0
    /\ proc = [p \in Procs |-> IdleProc]
    /\ tproc = [q \in TProcs |-> IdleTProc]
    /\ password = None
    /\ pek0 = NoKey
    /\ issued = <<>>
    /\ revoked = {}
    /\ assigned = {}
    /\ seqWrites = [k \in keys |-> <<>>]
    /\ overlapped = [k \in keys |-> FALSE]
    /\ limitMoved = [k \in keys |-> FALSE]
    /\ rival = [p \in Procs |-> NoRec]
    /\ rotations = 0
    /\ now = 0
    /\ lru = [a \in {"lru"} \cup Clients |->
                 [key \in CacheKeys |-> NoCacheEntry]]
    /\ fetch = [c \in Clients |-> [kind \in Kinds |-> IdleFetch]]
    /\ gets = [c \in Clients |-> NoGet]
    /\ cli = [q \in TProcs |-> NoCli]

Unregistered == UnregisteredWith(SecretKeys)

Init ==
    /\ Unregistered
    /\ call = NoCall

(***************************************************************************)
(* Store helpers.                                                          *)
(***************************************************************************)
hexists(k) == k \in DOMAIN env

\* hget followed by Array.isArray(currentHistory) ? currentHistory : []
historyOf(k) == IF k \in DOMAIN env THEN env[k] ELSE <<>>

\* mutation: the overwrite replaces the hash by the one field
hsetAlone(k, list) == [x \in {k} |-> list]

\* hset(redisKey, { [key]: value }): the other fields keep their values
hset(k, list) ==
    [x \in (DOMAIN env) \cup {k} |-> IF x = k THEN list ELSE env[x]]

hdel(k) == [x \in (DOMAIN env) \ {k} |-> env[x]]

\* Array.prototype.slice(0, n)
slice(list, n) == SubSeq(list, 1, IF n < Len(list) THEN n ELSE Len(list))

Min(a, b) == IF a < b THEN a ELSE b

Records(list) == {list[i] : i \in 1..Len(list)}

Versions(list) == {list[i].version : i \in 1..Len(list)}

\* Array.prototype.find((v) => v.version === n): the first match
find(list, n) ==
    list[CHOOSE i \in 1..Len(list) :
            /\ list[i].version = n
            /\ \A j \in 1..(i - 1) : list[j].version # n]

\* unlockProject: unwrap the password-wrapped PEK
unlockProject(pw) ==
    LET hex == decrypt(meta.encryptedPEK, deriveKey(pw, meta.salt))
    IN IF meta.exists /\ hex.ok THEN importKey(hex.pt) ELSE NoKey

\* mutation: the token is looked up before the metadata is tested
getPEKTokenFirst(tokenId, secret) ==
    IF tokenId \notin DOMAIN meta.serviceTokens
    THEN [ok |-> FALSE, err |-> "InvalidToken", pek |-> NoKey]
    ELSE IF ~meta.exists
    THEN [ok |-> FALSE, err |-> "ProjectNotFound", pek |-> NoKey]
    ELSE LET tokenInfo == meta.serviceTokens[tokenId]
             hex == decrypt(tokenInfo.encryptedPEK,
                            deriveKey(secret, tokenInfo.salt))
         IN IF hex.ok
            THEN [ok |-> TRUE, err |-> None, pek |-> importKey(hex.pt)]
            ELSE [ok |-> FALSE, err |-> "DecryptionFailed", pek |-> NoKey]

\* the part of getPEK after the metadata fetch
getPEK(tokenId, secret) ==
    IF ~meta.exists THEN [ok |-> FALSE, err |-> "ProjectNotFound", pek |-> NoKey]
    ELSE IF tokenId \notin DOMAIN meta.serviceTokens
    THEN [ok |-> FALSE, err |-> "InvalidToken", pek |-> NoKey]
    ELSE LET tokenInfo == meta.serviceTokens[tokenId]
             hex == decrypt(tokenInfo.encryptedPEK,
                            deriveKey(secret, tokenInfo.salt))
         IN IF hex.ok
            THEN [ok |-> TRUE, err |-> None, pek |-> importKey(hex.pt)]
            ELSE [ok |-> FALSE, err |-> "DecryptionFailed", pek |-> NoKey]

(***************************************************************************)
(* register: creates the project metadata with a fresh salt and PEK, the   *)
(* PEK wrapped under the key derived from the master password.             *)
(***************************************************************************)
Register(pw, historyLimit) ==
    /\ ~meta.exists
    /\ LET salt == rand + 1
           projectEncryptionKey == generateRandomKey(rand + 2)
           passwordDerivedKey == deriveKey(pw, salt)
           encryptedPEK == encrypt(exportKey(projectEncryptionKey),
                                   passwordDerivedKey, rand + 3)
       IN /\ meta' = [exists |-> TRUE, encryptedPEK |-> encryptedPEK,
                      salt |-> salt, historyLimit |-> historyLimit,
                      serviceTokens |-> <<>>]
          /\ pek0' = projectEncryptionKey
    /\ rand' = rand + 3
    /\ password' = pw
    /\ UNCHANGED <<cacheVars, env, clock, proc, tproc, issued, revoked, rotations, storeGhosts>>

\* register, first round trip: the existence check.  A project that exists
\* is only connected to; for a new one the command goes on to ask for the
\* master password
RegisterCheck(q, pw) ==
    /\ tproc[q].pc = "idle"
    /\ LET projectExists == meta.exists
       IN tproc' = [tproc EXCEPT ![q] =
             IF projectExists
             THEN [IdleTProc EXCEPT !.result = "connected"]
             ELSE [IdleTProc EXCEPT !.pc = "store", !.op = "register",
                                    !.newPassword = pw]]
    /\ UNCHANGED <<cacheVars, meta, env, clock, rand, proc, keyGhosts, storeGhosts>>

\* register, second round trip: a fresh salt and PEK, the PEK wrapped under
\* the key derived from the master password, and hset of the metadata
\* fields; a field the command does not name keeps its value
RegisterStore(q, historyLimit) ==
    /\ tproc[q].pc = "store"
    /\ tproc[q].op = "register"
    /\ LET masterPassword == tproc[q].newPassword
           salt == rand + 1
           projectEncryptionKey == generateRandomKey(rand + 2)
           passwordDerivedKey == deriveKey(masterPassword, salt)
           encryptedPEK == encrypt(exportKey(projectEncryptionKey),
                                   passwordDerivedKey, rand + 3)
       IN /\ meta' = [meta EXCEPT !.exists = TRUE,
                                  !.encryptedPEK = encryptedPEK,
                                  !.salt = salt,
                                  !.historyLimit = historyLimit]
          /\ pek0' = projectEncryptionKey
          /\ password' = masterPassword
    /\ rand' = rand + 3
    /\ tproc' = [tproc EXCEPT ![q] = [IdleTProc EXCEPT !.result = "registered"]]
    /\ UNCHANGED <<cacheVars, env, clock, proc, issued, revoked, rotations, storeGhosts>>

(***************************************************************************)
(* history limit: stores the new limit; no history is touched.  The limit  *)
(* is a whole number, as parseInt(value, 10) gives it.                     *)
(***************************************************************************)
HistoryLimit(limit) ==
    /\ meta.exists
    /\ unlockProject(password) # NoKey
    /\ meta' = [meta EXCEPT !.historyLimit = limit]
    /\ limitMoved' = [k \in SecretKeys |->
          limitMoved[k] \/ (k \in DOMAIN env /\ limit # meta.historyLimit)]
    /\ UNCHANGED <<cacheVars, env, clock, rand, proc, tproc, keyGhosts, assigned, seqWrites,
                   overlapped, rival>>

(***************************************************************************)
(* remove: verifies the password and deletes the key's field.              *)
(***************************************************************************)
Remove(k) ==
    /\ meta.exists
    /\ unlockProject(password) # NoKey
    /\ hexists(k)
    /\ env' = hdel(k)
    /\ seqWrites' = [seqWrites EXCEPT ![k] = <<>>]
    /\ overlapped' = [overlapped EXCEPT ![k] = FALSE]
    /\ limitMoved' = [limitMoved EXCEPT ![k] = FALSE]
    /\ UNCHANGED <<cacheVars, meta, clock, rand, proc, tproc, keyGhosts, assigned, rival>>

(***************************************************************************)
(* drop project: verifies the password and deletes the metadata hash and   *)
(* every environment hash of the project with one del.                     *)
(***************************************************************************)
DropProject ==
    /\ meta.exists
    /\ unlockProject(password) # NoKey
    /\ meta' = NoMeta
    /\ env' = <<>>
    /\ seqWrites' = [k \in SecretKeys |-> <<>>]
    /\ overlapped' = [k \in SecretKeys |-> FALSE]
    /\ limitMoved' = [k \in SecretKeys |-> FALSE]
    /\ UNCHANGED <<cacheVars, clock, rand, proc, tproc, keyGhosts, assigned,
                   rival>>

(***************************************************************************)
(* Secret commands.  Each ends in writeSecret, whose read of the history   *)
(* and final overwrite are two store round trips.                          *)
(***************************************************************************)
InFlight == {p \in Procs : proc[p].pc # "idle"}

\* writes begun so far, stored or still in flight
WritesBegun == Cardinality(assigned) + Cardinality(InFlight)

CanBegin(p) ==
    /\ proc[p].pc = "idle"
    /\ meta.exists
    /\ WritesBegun < MaxWrites

\* mutation: add goes on to writeSecret whether or not the key exists
AddCommandOverwrites(p, k, v) ==
    /\ CanBegin(p)
    /\ unlockProject(password) # NoKey
    /\ proc' = [proc EXCEPT ![p] =
          [IdleProc EXCEPT !.pc = "read", !.op = "add", !.key = k,
                           !.value = v, !.user = CliUser,
                           !.pek = unlockProject(password)]]
    /\ UNCHANGED <<cacheVars, meta, env, clock, rand, tproc, keyGhosts, storeGhosts>>

\* add: refuses a key that already exists
AddCommand(p, k, v) ==
    /\ CanBegin(p)
    /\ unlockProject(password) # NoKey
    /\ proc' = [proc EXCEPT ![p] =
          IF hexists(k)
          THEN [IdleProc EXCEPT !.result = "already-exists"]
          ELSE [IdleProc EXCEPT !.pc = "read", !.op = "add", !.key = k,
                                !.value = v, !.user = CliUser,
                                !.pek = unlockProject(password)]]
    /\ UNCHANGED <<cacheVars, meta, env, clock, rand, tproc, keyGhosts, storeGhosts>>

\* edit: refuses a key that does not exist
EditCommand(p, k, v) ==
    /\ CanBegin(p)
    /\ unlockProject(password) # NoKey
    /\ proc' = [proc EXCEPT ![p] =
          IF ~hexists(k)
          THEN [IdleProc EXCEPT !.result = "does-not-exist"]
          ELSE [IdleProc EXCEPT !.pc = "read", !.op = "edit", !.key = k,
                                !.value = v, !.user = CliUser,
                                !.pek = unlockProject(password)]]
    /\ UNCHANGED <<cacheVars, meta, env, clock, rand, tproc, keyGhosts, storeGhosts>>

\* client set: unwraps the PEK with the service token, then writeSecret
\* mutation: the token secret is passed as the audit user
auditUserSecret(tokenId, token) == token

\* the user the client passes to writeSecret: options.tokenId
auditUser(tokenId, token) == tokenId

ClientSet(p, k, v, tokenId) ==
    /\ CanBegin(p)
    /\ tokenId \in DOMAIN issued
    /\ LET got == getPEK(tokenId, issued[tokenId])
       IN proc' = [proc EXCEPT ![p] =
             IF ~got.ok
             THEN [IdleProc EXCEPT !.result = got.err]
             ELSE [IdleProc EXCEPT !.pc = "read", !.op = "set", !.key = k,
                                   !.value = v,
                                   !.user = auditUser(tokenId, issued[tokenId]),
                                   !.pek = got.pek]]
    /\ UNCHANGED <<cacheVars, meta, env, clock, rand, tproc, keyGhosts, storeGhosts>>


\* the credentials a client can be configured with: an issued pair, or a
\* pair that was never issued
ClientCredentials ==
    {[tokenId |-> t, token |-> issued[t]] : t \in DOMAIN issued}
        \cup {[tokenId |-> "stk_0", token |-> "redenv_sk_0"]}

\* setSecret: getPEK, then writeSecret with the token id as the audit user;
\* the client can be pointed at any project name, registered or not
SetSecret(p, k, v, tokenId, token) ==
    /\ proc[p].pc = "idle"
    /\ WritesBegun < MaxWrites
    /\ LET got == getPEK(tokenId, token)
       IN proc' = [proc EXCEPT ![p] =
             IF ~got.ok
             THEN [IdleProc EXCEPT !.result = got.err]
             ELSE [IdleProc EXCEPT !.pc = "read", !.op = "set", !.key = k,
                                   !.value = v,
                                   !.user = auditUser(tokenId, token),
                                   !.pek = got.pek]]
    /\ UNCHANGED <<cacheVars, meta, env, clock, rand, tproc, keyGhosts, storeGhosts>>

\* rollback: the command is entered with its key and --to option
\* (to = 0: no option, the version is picked from the prompt)
RollbackCommand(p, k, to) ==
    /\ CanBegin(p)
    /\ unlockProject(password) # NoKey
    /\ proc' = [proc EXCEPT ![p] =
          [IdleProc EXCEPT !.pc = "fetch", !.op = "rollback", !.key = k,
                           !.to = to, !.user = CliUser,
                           !.pek = unlockProject(password)]]
    /\ UNCHANGED <<cacheVars, meta, env, clock, rand, tproc, keyGhosts, storeGhosts>>

\* mutation: the check against the current head version is missing
rollbackRefusalNoHeadCheck(history, present, to) ==
    IF ~present THEN "no-secret"
    ELSE IF Len(history) < 2 THEN "no-previous-versions"
    ELSE IF to # 0 /\ to \notin Versions(history) THEN "version-not-found"
    ELSE None

\* why rollback refuses (None: it does not)
rollbackRefusal(history, present, to) ==
    IF ~present THEN "no-secret"
    ELSE IF Len(history) < 2 THEN "no-previous-versions"
    ELSE IF to # 0 /\ to = history[1].version THEN "is-current-version"
    ELSE IF to # 0 /\ to \notin Versions(history) THEN "version-not-found"
    ELSE None

\* mutation: the target is the current head, whatever was asked for
rollbackTargetHead(history, to, choice) == history[1]

\* the target of the rollback: --to when given, else the prompt's choice
rollbackTarget(history, to, choice) ==
    find(history, IF to # 0 THEN to ELSE choice)

\* rollback: fetch the history, find the target, decrypt it, confirm
RollbackFetch(p) ==
    /\ proc[p].pc = "fetch"
    /\ LET k == proc[p].key
           history == historyOf(k)
           refusal == rollbackRefusal(history, hexists(k), proc[p].to)
       IN IF refusal # None
          THEN proc' = [proc EXCEPT ![p] =
                           [IdleProc EXCEPT !.result = refusal]]
          ELSE \E choice \in Versions(Tail(history)), confirmation \in BOOLEAN :
                 LET targetVersion ==
                         rollbackTarget(history, proc[p].to, choice)
                     decryptedValue == decrypt(targetVersion.value, proc[p].pek)
                 IN /\ proc[p].to # 0 => choice = history[2].version
                    /\ proc' = [proc EXCEPT ![p] =
                         IF ~decryptedValue.ok
                         THEN [IdleProc EXCEPT !.result = "DecryptionFailed"]
                         ELSE IF ~confirmation
                         THEN [IdleProc EXCEPT !.result = "cancelled"]
                         ELSE [@ EXCEPT !.pc = "read",
                                        !.value = decryptedValue.pt,
                                        !.to = IF proc[p].to # 0
                                               THEN proc[p].to ELSE choice,
                                        !.fetched = history]]
    /\ UNCHANGED <<cacheVars, meta, env, clock, rand, tproc, keyGhosts, storeGhosts>>

\* the history limit writeSecret applies: metadata.historyLimit ?? 10
limitOf(metadata) ==
    IF metadata.historyLimit = Undefined THEN DefaultHistoryLimit
    ELSE metadata.historyLimit

\* mutation: the version is taken from the length of the list
nextVersionByLength(history) == Len(history) + 1

\* mutation: the version of the head is given again
nextVersionOfHead(history) ==
    IF Len(history) > 0 THEN history[1].version ELSE 1

\* (history[0]?.version || 0) + 1
nextVersion(history) ==
    (IF Len(history) > 0 THEN history[1].version ELSE 0) + 1

\* writeSecret, first round trip: read metadata and history, build the
\* new version
WriteRead(p) ==
    /\ proc[p].pc = "read"
    /\ IF ~meta.exists
       THEN /\ proc' = [proc EXCEPT ![p] =
                           [IdleProc EXCEPT !.result = "PROJECT_NOT_FOUND"]]
            /\ clock' = clock
       ELSE LET history == historyOf(proc[p].key)
                newVersion == [version |-> nextVersion(history),
                               value |-> encrypt(proc[p].value, proc[p].pek,
                                                 clock + 1),
                               user |-> proc[p].user,
                               createdAt |-> clock + 1]
            IN /\ proc' = [proc EXCEPT ![p].pc = "store",
                                       ![p].history = history,
                                       ![p].limit = limitOf(meta),
                                       ![p].rec = newVersion]
               /\ clock' = clock + 1
    /\ UNCHANGED <<cacheVars, meta, env, rand, tproc, keyGhosts, storeGhosts>>

\* mutation: the trim keeps one entry too many
trimmedHistoryOffByOne(rec, history, limit) ==
    LET unshifted == <<rec>> \o history
    IN IF limit > 0 THEN slice(unshifted, limit + 1) ELSE unshifted

\* mutation: the new version is pushed to the end of the list
trimmedHistoryPush(rec, history, limit) ==
    LET pushed == Append(history, rec)
    IN IF limit > 0 THEN slice(pushed, limit) ELSE pushed

\* history.unshift(newVersion), then the trim to the limit
trimmedHistory(rec, history, limit) ==
    LET unshifted == <<rec>> \o history
    IN IF limit > 0 THEN slice(unshifted, limit) ELSE unshifted

\* mutation: the final overwrite is built from a fresh read of the field
localHistoryReread(p) == historyOf(proc[p].key)

\* the list the final overwrite is built from: the local array that
\* writeSecret read in its first round trip
localHistory(p) == proc[p].history

\* what the command reports once writeSecret has returned
succeeded(op) ==
    CASE op = "add" -> "added"
      [] op = "edit" -> "updated"
      [] op = "set" -> "set"
      [] op = "rollback" -> "rolled-back"

\* writeSecret, second round trip: overwrite the key's field
WriteStore(p) ==
    /\ proc[p].pc = "store"
    /\ LET k == proc[p].key
           sequential == proc[p].history = historyOf(k)
       IN /\ env' = hset(k, trimmedHistory(proc[p].rec, localHistory(p),
                                           proc[p].limit))
          /\ assigned' = assigned \cup {[key |-> k, rec |-> proc[p].rec]}
          /\ seqWrites' = [seqWrites EXCEPT ![k] =
                IF sequential THEN Append(@, proc[p].rec.version) ELSE @]
          /\ overlapped' = [overlapped EXCEPT ![k] = @ \/ ~sequential]
          /\ limitMoved' = [limitMoved EXCEPT ![k] =
                @ \/ proc[p].limit # limitOf(meta)]
          /\ rival' = [q \in Procs |->
                IF q = p THEN NoRec
                ELSE IF proc[q].pc = "store" /\ proc[q].key = k
                THEN proc[p].rec
                ELSE rival[q]]
    /\ proc' = [proc EXCEPT ![p] =
                    [IdleProc EXCEPT !.result = succeeded(proc[p].op)]]
    /\ UNCHANGED <<cacheVars, meta, clock, rand, tproc, keyGhosts>>

\* mutation: the failed overwrite has stored the new version on its own
WriteFailsHalfWritten(p) ==
    /\ proc[p].pc \in {"read", "store"}
    /\ clock <= MaxWrites
    /\ proc' = [proc EXCEPT ![p] = [IdleProc EXCEPT !.result = "failed"]]
    /\ env' = IF proc[p].pc = "store"
              THEN hset(proc[p].key, <<proc[p].rec>>)
              ELSE env
    /\ UNCHANGED <<cacheVars, meta, clock, rand, tproc, keyGhosts,
                   storeGhosts>>

\* writeSecret throws: a read, the encryption or the final hset is rejected
\* before the store has accepted the overwrite; nothing is caught
WriteFails(p) ==
    /\ proc[p].pc \in {"read", "store"}
    /\ clock <= MaxWrites
    /\ proc' = [proc EXCEPT ![p] = [IdleProc EXCEPT !.result = "failed"]]
    /\ env' = env
    /\ UNCHANGED <<cacheVars, meta, clock, rand, tproc, keyGhosts,
                   storeGhosts>>

(***************************************************************************)
(* Credential commands.  Each reads the metadata hash and later overwrites *)
(* one of its fields: two store round trips.                               *)
(***************************************************************************)
TokensBegun ==
    Cardinality(DOMAIN issued)
    + Cardinality({q \in TProcs : tproc[q].op \in {"create", "ephemeral"}})

\* mutation: the record keeps another salt than the one the key was
\* derived with
tokenRecordWrongSalt(pek, secretToken, tokenSalt, iv) ==
    LET tokenKey == deriveKey(secretToken, tokenSalt)
        encryptedPEK == encrypt(exportKey(pek), tokenKey, iv)
    IN [encryptedPEK |-> encryptedPEK, salt |-> tokenSalt + 1]

vaultVarsButCli == <<meta, env, clock, rand, proc, tproc, keyGhosts,
                     storeGhosts>>

\* the token record: the PEK wrapped under the key derived from the token
\* secret and a salt, stored next to that salt
tokenRecord(pek, secretToken, tokenSalt, iv) ==
    LET tokenKey == deriveKey(secretToken, tokenSalt)
        encryptedPEK == encrypt(exportKey(pek), tokenKey, iv)
    IN [encryptedPEK |-> encryptedPEK, salt |-> tokenSalt]

\* token create: unlock, generate the credential pair, wrap the PEK under
\* the key derived from the secret, fetch the metadata and add the record
TokenCreateRead(q) ==
    /\ tproc[q].pc = "idle"
    /\ meta.exists
    /\ unlockProject(password) # NoKey
    /\ TokensBegun < MaxTokens
    /\ LET pek == unlockProject(password)
           publicTokenId == "stk_" \o ToString(rand + 1)
           secretToken == "redenv_sk_" \o ToString(rand + 2)
           tokenSalt == rand + 3
           record == tokenRecord(pek, secretToken, tokenSalt, rand + 4)
           serviceTokens == meta.serviceTokens
       IN tproc' = [tproc EXCEPT ![q] =
             [IdleTProc EXCEPT !.pc = "store", !.op = "create", !.pek = pek,
                !.id = publicTokenId, !.secret = secretToken,
                !.entry = record,
                !.tokens = [t \in (DOMAIN serviceTokens) \cup {publicTokenId}
                              |-> IF t = publicTokenId THEN record
                                  ELSE serviceTokens[t]]]]
    /\ rand' = rand + 4
    /\ UNCHANGED <<cacheVars, meta, env, clock, proc, keyGhosts, storeGhosts>>

TokenCreateStore(q) ==
    /\ tproc[q].pc = "store"
    /\ tproc[q].op = "create"
    /\ meta' = [meta EXCEPT !.serviceTokens = tproc[q].tokens]
    /\ issued' = [t \in (DOMAIN issued) \cup {tproc[q].id} |->
                     IF t = tproc[q].id THEN tproc[q].secret ELSE issued[t]]
    /\ tproc' = [tproc EXCEPT ![q] = [IdleTProc EXCEPT !.result = "created"]]
    /\ UNCHANGED <<cacheVars, env, clock, rand, proc, password, pek0, revoked, rotations,
                   storeGhosts>>

\* the record of an ephemeral token: a token record marked ephemeral,
\* with the time six hours after its creation
EphemeralTtl == 60 * 60 * 6 * 1000

ephemeralRecord(pek, tokenSecret, salt, iv) ==
    [ephemeral |-> TRUE, expiresAt |-> now + EphemeralTtl]
        @@ tokenRecord(pek, tokenSecret, salt, iv)

isEphemeral(tokenInfo) == "ephemeral" \in DOMAIN tokenInfo

\* getEphemeralToken called in the process host, q being the call: the
\* cache is looked up; on a miss unlock, generate the credential pair, wrap
\* the PEK, fetch the metadata and add the record
EphemeralTokenReadIn(host, q, plugin) ==
    /\ tproc[q].pc = "idle"
    /\ plugin \notin DOMAIN cli[host].ephemeralTokenCache
    /\ meta.exists
    /\ unlockProject(password) # NoKey
    /\ TokensBegun < MaxTokens
    /\ LET pek == unlockProject(password)
           tokenId == "stk_ephemeral_" \o plugin \o "_" \o ToString(rand + 1)
           tokenSecret == "redenv_sk_" \o ToString(rand + 2)
           salt == rand + 3
           record == ephemeralRecord(pek, tokenSecret, salt, rand + 4)
           tokens == meta.serviceTokens
       IN tproc' = [tproc EXCEPT ![q] =
             [IdleTProc EXCEPT !.pc = "store", !.op = "ephemeral", !.pek = pek,
                !.plugin = plugin, !.id = tokenId, !.secret = tokenSecret, !.entry = record,
                !.tokens = [t \in (DOMAIN tokens) \cup {tokenId}
                              |-> IF t = tokenId THEN record ELSE tokens[t]]]]
    /\ rand' = rand + 4
    /\ UNCHANGED <<cacheVars, meta, env, clock, proc, keyGhosts, storeGhosts>>

\* the rest of the call: the map is written back, the token is registered
\* for cleanup and the pair is cached and returned
EphemeralTokenStoreIn(host, q) ==
    /\ tproc[q].pc = "store"
    /\ tproc[q].op = "ephemeral"
    /\ meta' = [meta EXCEPT !.serviceTokens = tproc[q].tokens]
    /\ issued' = [t \in (DOMAIN issued) \cup {tproc[q].id} |->
                     IF t = tproc[q].id THEN tproc[q].secret ELSE issued[t]]
    /\ cli' = [cli EXCEPT
                 ![host].tokensToCleanup = Append(@, tproc[q].id),
                 ![host].ephemeralTokenCache =
                     [pl \in DOMAIN @ \cup {tproc[q].plugin} |->
                         IF pl = tproc[q].plugin
                         THEN [tokenId |-> tproc[q].id,
                               token |-> tproc[q].secret]
                         ELSE @[pl]]]
    /\ tproc' = [tproc EXCEPT ![q] =
                     [IdleTProc EXCEPT !.result = "ephemeral-issued"]]
    /\ UNCHANGED <<now, lru, fetch, gets, call, env, clock, rand, proc,
                   password, pek0, revoked, rotations, storeGhosts>>

\* the one call of a process that makes its calls one at a time
EphemeralTokenRead(q, plugin) == EphemeralTokenReadIn(q, q, plugin)

EphemeralTokenStore(q) == EphemeralTokenStoreIn(q, q)

\* a termination signal is delivered: the handler starts, and exits the
\* process at once when there is nothing to clean up
NoHandler == [pc |-> "done", i |-> 0, tokens |-> <<>>]

Signal(q) ==
    /\ ~cli[q].exited
    /\ tproc[q].pc = "idle"
    /\ Len(cli[q].handlers) < MaxSignals
    /\ cli' = IF Len(cli[q].tokensToCleanup) > 0
              THEN [cli EXCEPT ![q].handlers =
                       Append(@, [NoHandler EXCEPT !.pc = "loop", !.i = 1])]
              ELSE [cli EXCEPT ![q].handlers = Append(@, NoHandler),
                               ![q].exited = TRUE]
    /\ UNCHANGED <<now, lru, fetch, gets, call, vaultVarsButCli>>

\* the handler's loop, first half: fetch the metadata, parse the map, and
\* delete the token from the parsed map if it is there
CleanupRead(q, h) ==
    /\ ~cli[q].exited
    /\ h \in 1..Len(cli[q].handlers)
    /\ cli[q].handlers[h].pc = "loop"
    /\ cli[q].handlers[h].i <= Len(cli[q].tokensToCleanup)
    /\ LET tokenId == cli[q].tokensToCleanup[cli[q].handlers[h].i]
           tokens == meta.serviceTokens
       IN cli' = IF meta.exists /\ tokenId \in DOMAIN tokens
                 THEN [cli EXCEPT
                         ![q].handlers[h].pc = "store",
                         ![q].handlers[h].tokens =
                             [t \in DOMAIN tokens \ {tokenId} |-> tokens[t]]]
                 ELSE [cli EXCEPT ![q].handlers[h].i = @ + 1]
    /\ UNCHANGED <<now, lru, fetch, gets, call, vaultVarsButCli>>

\* mutation: the map is written back as it was read
CleanupStoreUnchanged(q, h) ==
    /\ ~cli[q].exited
    /\ h \in 1..Len(cli[q].handlers)
    /\ cli[q].handlers[h].pc = "store"
    /\ meta' = meta
    /\ cli' = [cli EXCEPT ![q].handlers[h].pc = "loop",
                          ![q].handlers[h].i = @ + 1,
                          ![q].handlers[h].tokens = <<>>]
    /\ UNCHANGED <<now, lru, fetch, gets, call, env, clock, rand, proc, tproc,
                   keyGhosts, storeGhosts>>

\* the handler's loop, second half: write the map back
CleanupStore(q, h) ==
    /\ ~cli[q].exited
    /\ h \in 1..Len(cli[q].handlers)
    /\ cli[q].handlers[h].pc = "store"
    /\ meta' = [meta EXCEPT !.serviceTokens = cli[q].handlers[h].tokens]
    /\ cli' = [cli EXCEPT ![q].handlers[h].pc = "loop",
                          ![q].handlers[h].i = @ + 1,
                          ![q].handlers[h].tokens = <<>>]
    /\ UNCHANGED <<now, lru, fetch, gets, call, env, clock, rand, proc, tproc,
                   keyGhosts, storeGhosts>>

\* a store call of the loop throws: the error is caught and ignored, the
\* loop goes on with the next token
CleanupFails(q, h) ==
    /\ ~cli[q].exited
    /\ h \in 1..Len(cli[q].handlers)
    /\ cli[q].handlers[h].pc \in {"loop", "store"}
    /\ cli[q].handlers[h].i <= Len(cli[q].tokensToCleanup)
    /\ cli' = [cli EXCEPT
                 ![q].swallowed =
                     @ \cup {cli[q].tokensToCleanup[cli[q].handlers[h].i]},
                 ![q].handlers[h].pc = "loop",
                 ![q].handlers[h].i = @ + 1,
                 ![q].handlers[h].tokens = <<>>]
    /\ UNCHANGED <<now, lru, fetch, gets, call, vaultVarsButCli>>

\* process.exit(0) after the loop
CleanupExit(q, h) ==
    /\ ~cli[q].exited
    /\ h \in 1..Len(cli[q].handlers)
    /\ cli[q].handlers[h].pc = "loop"
    /\ cli[q].handlers[h].i > Len(cli[q].tokensToCleanup)
    /\ cli' = [cli EXCEPT ![q].handlers[h].pc = "done", ![q].exited = TRUE]
    /\ UNCHANGED <<now, lru, fetch, gets, call, vaultVarsButCli>>

\* token revoke: fetch the metadata, delete the chosen ids from the map
TokenRevokeRead(q, tokenIdsToRevoke) ==
    /\ tproc[q].pc = "idle"
    /\ meta.exists
    /\ tokenIdsToRevoke # {}
    /\ LET serviceTokens == meta.serviceTokens
       IN tproc' = [tproc EXCEPT ![q] =
             [IdleTProc EXCEPT !.pc = "store", !.op = "revoke",
                !.ids = tokenIdsToRevoke,
                !.tokens = [t \in (DOMAIN serviceTokens) \ tokenIdsToRevoke
                              |-> serviceTokens[t]]]]
    /\ UNCHANGED <<cacheVars, meta, env, clock, rand, proc, keyGhosts, storeGhosts>>

TokenRevokeStore(q) ==
    /\ tproc[q].pc = "store"
    /\ tproc[q].op = "revoke"
    /\ meta' = [meta EXCEPT !.serviceTokens = tproc[q].tokens]
    /\ revoked' = revoked \cup tproc[q].ids
    /\ tproc' = [tproc EXCEPT ![q] = [IdleTProc EXCEPT !.result = "revoked"]]
    /\ UNCHANGED <<cacheVars, env, clock, rand, proc, password, pek0, issued, rotations,
                   storeGhosts>>

\* change-password: fetch the metadata and unwrap the PEK under the
\* current password
ChangePasswordRead(q, currentMasterPassword, newMasterPassword) ==
    /\ tproc[q].pc = "idle"
    /\ meta.exists
    /\ rotations < MaxRotations
    /\ LET salt == meta.salt
           passwordDerivedKey == deriveKey(currentMasterPassword, salt)
           decryptedPEKHex == decrypt(meta.encryptedPEK, passwordDerivedKey)
       IN tproc' = [tproc EXCEPT ![q] =
             IF ~decryptedPEKHex.ok
             THEN [IdleTProc EXCEPT !.result = "DecryptionFailed"]
             ELSE [IdleTProc EXCEPT !.pc = "store", !.op = "change-password",
                      !.pek = importKey(decryptedPEKHex.pt),
                      !.entry = [NoEntry EXCEPT !.salt = salt],
                      !.newPassword = newMasterPassword]]
    /\ rotations' = rotations + 1
    /\ UNCHANGED <<cacheVars, meta, env, clock, rand, proc, password, pek0, issued, revoked,
                   storeGhosts>>

\* mutation: the key is derived with another salt than the stored one
rewrappedPEKOtherSalt(pek, newMasterPassword, salt, iv) ==
    encrypt(exportKey(pek), deriveKey(newMasterPassword, salt + 1), iv)

\* the PEK wrapped under the key derived from the new password and the
\* salt read from the metadata
rewrappedPEK(pek, newMasterPassword, salt, iv) ==
    LET newPasswordDerivedKey == deriveKey(newMasterPassword, salt)
    IN encrypt(exportKey(pek), newPasswordDerivedKey, iv)

\* mutation: the overwrite also empties the token map
rotatedMetaDropsTokens(metadata, newEncryptedPEK) ==
    [metadata EXCEPT !.encryptedPEK = newEncryptedPEK,
                     !.serviceTokens = <<>>]

\* hset(metaKey, { encryptedPEK }): one field of the hash is overwritten
rotatedMeta(metadata, newEncryptedPEK) ==
    [metadata EXCEPT !.encryptedPEK = newEncryptedPEK]

\* change-password: wrap the PEK under the new password, store the blob
ChangePasswordStore(q) ==
    /\ tproc[q].pc = "store"
    /\ tproc[q].op = "change-password"
    /\ LET newEncryptedPEK ==
               rewrappedPEK(tproc[q].pek, tproc[q].newPassword,
                            tproc[q].entry.salt, rand + 1)
       IN meta' = rotatedMeta(meta, newEncryptedPEK)
    /\ rand' = rand + 1
    /\ password' = tproc[q].newPassword
    /\ tproc' = [tproc EXCEPT ![q] =
                     [IdleTProc EXCEPT !.result = "password-changed"]]
    /\ UNCHANGED <<cacheVars, env, clock, proc, pek0, issued, revoked, rotations, storeGhosts>>

(***************************************************************************)
(* The client.  getSecrets hands the cache key, the module's one cache,    *)
(* the fetch and the two durations to the caching layer, which decides     *)
(* from the entry's age whether to answer from the cache, to answer from   *)
(* the cache and refresh in the background, or to wait for a fetch.        *)
(***************************************************************************)
vaultVars == <<meta, env, clock, rand, proc, tproc, keyGhosts, storeGhosts,
               call, cli>>

\* the token the clients are configured with
ClientTokenId == CHOOSE t \in DOMAIN issued : TRUE

\* mutation: the duration is handed over in seconds
cachifiedTtlSeconds(cache) == cache.ttl

\* ttl: this.options.cache.ttl * 1000
cachifiedTtl(cache) == cache.ttl * 1000

\* mutation: the duration is handed over in seconds
cachifiedSwrSeconds(cache) == cache.staleWhileRevalidate

\* staleWhileRevalidate: this.options.cache.staleWhileRevalidate * 1000
cachifiedSwr(cache) == cache.staleWhileRevalidate * 1000

\* mutation: every client instance has a cache of its own
cachifiedCacheOfInstance(c) == c

\* cache: lru, the one cache of the module, whichever the instance
cachifiedCache(c) == "lru"

\* redis.hgetall(envKey): every field of the hash with its parsed JSON
\* value; the fields the commands write are arrays of versions
hgetall(hash) ==
    [k \in DOMAIN hash |-> [isArray |-> TRUE, items |-> hash[k]]]

\* mutation: one field that does not decrypt aborts the fetch, which
\* returns no secret at all
fetchAndDecryptAllOrNothing(pek, versionedSecrets) ==
    LET history(k) == versionedSecrets[k].items
        decrypted == {k \in DOMAIN versionedSecrets :
                        /\ versionedSecrets[k].isArray
                        /\ Len(history(k)) > 0
                        /\ decrypt(history(k)[1].value, pek).ok}
    IN IF decrypted = DOMAIN versionedSecrets
       THEN [k \in decrypted |-> decrypt(history(k)[1].value, pek).pt]
       ELSE <<>>

\* mutation: the oldest version of each key is decrypted
fetchAndDecryptOldest(pek, versionedSecrets) ==
    LET history(k) == versionedSecrets[k].items
        last(k) == history(k)[Len(history(k))]
        decrypted == {k \in DOMAIN versionedSecrets :
                        /\ versionedSecrets[k].isArray
                        /\ Len(history(k)) > 0
                        /\ decrypt(last(k).value, pek).ok}
    IN [k \in decrypted |-> decrypt(last(k).value, pek).pt]

\* the part of fetchAndDecrypt after its two reads: the head of each
\* non-empty history, decrypted; a key whose head does not decrypt is left out
fetchAndDecrypt(pek, versionedSecrets) ==
    LET history(k) == versionedSecrets[k].items
        decrypted == {k \in DOMAIN versionedSecrets :
                        /\ versionedSecrets[k].isArray
                        /\ Len(history(k)) > 0
                        /\ decrypt(history(k)[1].value, pek).ok}
    IN [k \in decrypted |-> decrypt(history(k)[1].value, pek).pt]

\* the age of a cache entry
age(entry) == now - entry.createdTime

\* Empty, Fresh, Stale or Expired
cacheState(entry, ttl, swr) ==
    IF ~entry.present THEN "Empty"
    ELSE IF age(entry) < ttl THEN "Fresh"
    ELSE IF age(entry) < ttl + swr THEN "Stale"
    ELSE "Expired"

\* a background refresh of the key is in flight in the cache
refreshing(cache, key) ==
    \E d \in Clients :
        /\ fetch[d]["background"].pc # "idle"
        /\ fetch[d]["background"].cache = cache
        /\ fetch[d]["background"].key = key

\* get, getAll, load: getSecrets
Get(c) ==
    /\ fetch[c]["blocking"].pc = "idle"
    /\ DOMAIN issued # {}
    /\ LET cache == cachifiedCache(c)
           key == getCacheKey(Project, Environment)
           entry == lru[cache][key]
           state == cacheState(entry, cachifiedTtl(CacheOptions),
                               cachifiedSwr(CacheOptions))
           started == [IdleFetch EXCEPT !.pc = "pek", !.cache = cache,
                                        !.key = key]
       IN IF state = "Fresh"
          THEN /\ gets' = [gets EXCEPT ![c] =
                   [observed |-> state, waiting |-> FALSE,
                    served |-> "cache", map |-> entry.value]]
               /\ UNCHANGED fetch
          ELSE IF state = "Stale"
          THEN /\ gets' = [gets EXCEPT ![c] =
                   [observed |-> state, waiting |-> FALSE,
                    served |-> "cache", map |-> entry.value]]
               /\ fetch' = IF refreshing(cache, key) THEN fetch
                           ELSE [fetch EXCEPT ![c]["background"] = started]
          ELSE /\ gets' = [gets EXCEPT ![c] =
                   [observed |-> state, waiting |-> TRUE,
                    served |-> None, map |-> <<>>]]
               /\ fetch' = [fetch EXCEPT ![c]["blocking"] = started]
    /\ UNCHANGED <<now, lru, vaultVars>>

\* getFreshValue, first read: the metadata, and the PEK unwrapped with the
\* token id and secret of the client's options
GetFreshValuePEKWith(c, kind, tokenId, token) ==
    /\ fetch[c][kind].pc = "pek"
    /\ LET pek == getPEK(tokenId, token)
       IN IF pek.ok
          THEN /\ fetch' = [fetch EXCEPT ![c][kind].pc = "env",
                                         ![c][kind].pek = pek.pek]
               /\ UNCHANGED gets
          ELSE /\ fetch' = [fetch EXCEPT ![c][kind] = IdleFetch]
               /\ gets' = IF kind = "blocking"
                         THEN [gets EXCEPT ![c].waiting = FALSE,
                                          ![c].served = pek.err]
                         ELSE gets
    /\ UNCHANGED <<now, lru, vaultVars>>

\* the fetch of a client that is configured with the issued token
GetFreshValuePEK(c, kind) ==
    GetFreshValuePEKWith(c, kind, ClientTokenId, issued[ClientTokenId])

\* getFreshValue, second read: the environment, decrypted; the result
\* becomes the entry, and the answer of the get that waited for it
GetFreshValueEnv(c, kind) ==
    /\ fetch[c][kind].pc = "env"
    /\ LET secrets == fetchAndDecrypt(fetch[c][kind].pek, hgetall(env))
           cache == fetch[c][kind].cache
           key == fetch[c][kind].key
       IN /\ lru' = [lru EXCEPT ![cache][key] =
                        [present |-> TRUE, value |-> secrets,
                         createdTime |-> now]]
          /\ gets' = IF kind = "blocking"
                    THEN [gets EXCEPT ![c].waiting = FALSE,
                                     ![c].served = "fetch",
                                     ![c].map = secrets]
                    ELSE gets
    /\ fetch' = [fetch EXCEPT ![c][kind] = IdleFetch]
    /\ UNCHANGED <<now, vaultVars>>

\* getFreshValue, second read alone: the store answers hgetall(envKey);
\* the heads are decrypted from that answer in tasks of their own
GetFreshValueRead(c, kind) ==
    /\ fetch[c][kind].pc = "env"
    /\ LET secrets == fetchAndDecrypt(fetch[c][kind].pek, hgetall(env))
       IN fetch' = [fetch EXCEPT ![c][kind] =
                       [secrets |-> secrets] @@ [@ EXCEPT !.pc = "decrypt"]]
    /\ UNCHANGED <<now, lru, gets, vaultVars>>

\* the decryptions are joined and getFreshValue returns: the result
\* becomes the entry, and the answer of the get that waited for it
GetFreshValueReturn(c, kind) ==
    /\ fetch[c][kind].pc = "decrypt"
    /\ LET secrets == fetch[c][kind].secrets
           cache == fetch[c][kind].cache
           key == fetch[c][kind].key
       IN /\ lru' = [lru EXCEPT ![cache][key] =
                        [present |-> TRUE, value |-> secrets,
                         createdTime |-> now]]
          /\ gets' = IF kind = "blocking"
                    THEN [gets EXCEPT ![c].waiting = FALSE,
                                     ![c].served = "fetch",
                                     ![c].map = secrets]
                    ELSE gets
    /\ fetch' = [fetch EXCEPT ![c][kind] = IdleFetch]
    /\ UNCHANGED <<now, vaultVars>>

\* time passes without end: once the clock has reached its bound, the
\* ages of the entries go on growing up to the age at which they are
\* expired, beyond which no age differs from another
Elapse(d) ==
    LET expired == cachifiedTtl(CacheOptions) + cachifiedSwr(CacheOptions)
        older(entry) ==
            IF entry.present /\ age(entry) < expired
            THEN [entry EXCEPT !.createdTime = @ - d]
            ELSE entry
    IN /\ IF now + d <= MaxTicks * d
          THEN /\ now' = now + d
               /\ lru' = lru
          ELSE /\ now' = now
               /\ lru' = [a \in DOMAIN lru |->
                            [key \in CacheKeys |-> older(lru[a][key])]]
       /\ UNCHANGED <<fetch, gets, vaultVars>>

\* the values hgetall can return for the fields of an environment hash:
\* arrays of at most MaxLimit versions, encrypted under the PEK or not, and
\* a value that is not an array
FetchKeys == {"FOO", "BAR"}

FetchPEK == generateRandomKey(1)

ForeignPEK == generateRandomKey(2)

FetchVersions ==
    {[NoRec EXCEPT !.version = 1, !.value = encrypt(v, k, 1)] :
        v \in Plaintexts, k \in {FetchPEK, ForeignPEK}}
    \cup {NoRec}

FetchHistories ==
    UNION {[1..n -> FetchVersions] : n \in 0..MaxLimit}

FetchValues ==
    {[isArray |-> TRUE, items |-> h] : h \in FetchHistories}
    \cup {[isArray |-> FALSE, items |-> <<>>]}

FetchHashes ==
    UNION {[S -> FetchValues] : S \in SUBSET FetchKeys}

FetchInit ==
    /\ Unregistered
    /\ \E h \in FetchHashes :
          call = [fn |-> "fetchAndDecrypt", pc |-> "called", pek |-> FetchPEK,
                  versionedSecrets |-> h, secrets |-> <<>>]

\* fetchAndDecrypt from the answer of hgetall to its return
FetchAndDecrypt ==
    /\ call.fn = "fetchAndDecrypt"
    /\ call.pc = "called"
    /\ call' = [call EXCEPT
                  !.pc = "returned",
                  !.secrets = fetchAndDecrypt(call.pek, call.versionedSecrets)]
    /\ UNCHANGED <<now, lru, fetch, gets, meta, env, clock, rand, proc, tproc,
                   keyGhosts, storeGhosts, cli>>

FetchNext == FetchAndDecrypt

FetchSpec == FetchInit /\ [][FetchNext]_vars

\* the write the latest writeSecret made
LastWrite ==
    CHOOSE a \in assigned :
        \A b \in assigned : b.rec.createdAt <= a.rec.createdAt

\* what a client's set has written: its key and its value
Written ==
    LET a == LastWrite
    IN [k \in {a.key} |-> decrypt(a.rec.value, pek0).pt]

\* set of the client built on the utils entry point: after setSecret it
\* logs and returns; the module's cache is not touched
SetReturns(c, p) ==
    /\ proc[p].pc = "idle"
    /\ proc[p].result = "set"
    /\ proc' = [proc EXCEPT ![p].result = "returned"]
    /\ gets' = [gets EXCEPT ![c] =
                   [NoGet EXCEPT !.served = "set", !.map = Written]]
    /\ UNCHANGED <<call, cli, now, lru, fetch, meta, env, clock, rand, tproc, keyGhosts,
                   storeGhosts>>

\* set of the self-contained client: after writeSecret it deletes the
\* entry of its cache key, then logs and returns
SetClearsCache(c, p) ==
    /\ proc[p].pc = "idle"
    /\ proc[p].result = "set"
    /\ proc' = [proc EXCEPT ![p].result = "returned"]
    /\ lru' = [lru EXCEPT ![cachifiedCache(c)][getCacheKey(Project,
                                                            Environment)] =
                  NoCacheEntry]
    /\ gets' = [gets EXCEPT ![c] =
                   [NoGet EXCEPT !.served = "set", !.map = Written]]
    /\ UNCHANGED <<call, cli, now, fetch, meta, env, clock, rand, tproc, keyGhosts,
                   storeGhosts>>

\* time passes
Tick(d) ==
    /\ now + d <= MaxTicks * d
    /\ now' = now + d
    /\ UNCHANGED <<lru, fetch, gets, vaultVars>>

(***************************************************************************)
(* Specifications.                                                         *)
(*   Spec:     commands run one after another (no command starts while     *)
(*             another is between its store round trips).                  *)
(*   RaceSpec: secret commands of two processes overlap on one key.        *)
(*   KeySpec:  credential commands of two processes overlap.               *)
(*   VaultSpec: secret commands overlap with credential commands.          *)
(*   RegisterSpec: two registrations overlap with the other commands.      *)
(*   CacheSpec: clients read through the cache while the owner writes.     *)
(*   SetSpec:  one client reads through the cache and writes with set.     *)
(*   LiveSpec: a client keeps calling get while the owner writes; reads    *)
(*             complete and time passes (weak fairness).                   *)
(*   AccessSpec: a client's reads and writes around a token revocation.    *)
(*   ShareSpec: two client instances, one of them without a valid token.   *)
(*   RefreshSpec: a client's set while one of its fetches is in flight.    *)
(*   PluginSpec: ephemeral tokens of a process, its signal handler, time.  *)
(*   OverlapSpec: overlapping getEphemeralToken calls of one process.      *)
(*   MapSpec: token commands, an ephemeral token and cleanup interleaved.  *)
(*   FailSpec: the commands one after another, writeSecret may fail.       *)
(*   DropSpec: a client writes to a project that is dropped under it.      *)
(*   DisjointSpec: overlapping writes, each to a field of its own.         *)
(*   FetchSpec: fetchAndDecrypt applied to the hashes hgetall can return.  *)
(*   CryptoSpec: encrypt and decrypt applied to plaintexts and to strings. *)
(***************************************************************************)
Quiet ==
    /\ \A p \in Procs : proc[p].pc = "idle"
    /\ \A q \in TProcs : tproc[q].pc = "idle"

Register1(l) == Register(OwnerPassword, l)

HistoryLimit1(l) == Quiet /\ HistoryLimit(l)

Remove1(k) == Quiet /\ Remove(k)

Add1(k, v) == Quiet /\ AddCommand(Proc1, k, v)

Edit1(k, v) == Quiet /\ EditCommand(Proc1, k, v)

ClientSet1(k, v, t) == Quiet /\ ClientSet(Proc1, k, v, t)

Rollback1(k, to) == Quiet /\ RollbackCommand(Proc1, k, to)

TokenCreate1 == Quiet /\ DOMAIN issued = {} /\ TokenCreateRead(TProc1)

Next ==
    \/ \E l \in 0..MaxLimit : Register1(l)
    \/ \E l \in 0..MaxLimit : HistoryLimit1(l)
    \/ \E k \in SecretKeys : Remove1(k)
    \/ \E k \in SecretKeys, v \in Plaintexts : Add1(k, v)
    \/ \E k \in SecretKeys, v \in Plaintexts : Edit1(k, v)
    \/ \E k \in SecretKeys, v \in Plaintexts, t \in DOMAIN issued :
          ClientSet1(k, v, t)
    \/ \E k \in SecretKeys, to \in 0..MaxWrites : Rollback1(k, to)
    \/ RollbackFetch(Proc1)
    \/ WriteRead(Proc1)
    \/ WriteStore(Proc1)
    \/ TokenCreate1
    \/ TokenCreateStore(TProc1)

Spec == Init /\ [][Next]_vars

RaceNext ==
    \/ \E l \in 0..MaxLimit : Register1(l)
    \/ Remove(RaceKey)
    \/ \E p \in Procs, v \in Plaintexts : AddCommand(p, RaceKey, v)
    \/ \E p \in Procs, v \in Plaintexts : EditCommand(p, RaceKey, v)
    \/ \E p \in Procs, to \in 0..MaxWrites : RollbackCommand(p, RaceKey, to)
    \/ \E p \in Procs : RollbackFetch(p)
    \/ \E p \in Procs : WriteRead(p)
    \/ \E p \in Procs : WriteStore(p)

RaceSpec == Init /\ [][RaceNext]_vars

KeyNext ==
    \/ Register1(DefaultHistoryLimit)
    \/ \E q \in TProcs : TokenCreateRead(q)
    \/ \E q \in TProcs : TokenCreateStore(q)
    \/ \E q \in TProcs, ids \in SUBSET (DOMAIN issued) :
          TokenRevokeRead(q, ids)
    \/ \E q \in TProcs : TokenRevokeStore(q)
    \/ \E q \in TProcs, cur \in Passwords, new \in Passwords :
          ChangePasswordRead(q, cur, new)
    \/ \E q \in TProcs : ChangePasswordStore(q)

KeySpec == Init /\ [][KeyNext]_vars

\* one process of secret commands and one of credential commands, their
\* store round trips interleaved
EphemeralToken1 ==
    /\ Quiet
    /\ \A t \in DOMAIN meta.serviceTokens : ~isEphemeral(meta.serviceTokens[t])
    /\ EphemeralTokenRead(TProc1, Plugin1)

VaultNext ==
    \/ Register1(DefaultHistoryLimit)
    \/ \E k \in SecretKeys : AddCommand(Proc1, k, VaultPlaintext)
    \/ \E k \in SecretKeys : EditCommand(Proc1, k, VaultPlaintext)
    \/ \E k \in SecretKeys, t \in DOMAIN issued :
          ClientSet(Proc1, k, VaultPlaintext, t)
    \/ WriteRead(Proc1)
    \/ WriteStore(Proc1)
    \/ TokenCreate1
    \/ TokenCreateStore(TProc1)
    \/ EphemeralToken1
    \/ EphemeralTokenStore(TProc1)
    \/ \E cur \in Passwords, new \in Passwords :
          ChangePasswordRead(TProc1, cur, new)
    \/ ChangePasswordStore(TProc1)

VaultSpec == Init /\ [][VaultNext]_vars

\* two registrations of the project overlap with each other and with the
\* commands of whoever registered first
RegisterNext ==
    \/ \E q \in TProcs, pw \in Passwords : RegisterCheck(q, pw)
    \/ \E q \in TProcs : RegisterStore(q, DefaultHistoryLimit)
    \/ \E k \in SecretKeys : AddCommand(Proc1, k, VaultPlaintext)
    \/ \E k \in SecretKeys : EditCommand(Proc1, k, VaultPlaintext)
    \/ \E k \in SecretKeys, t \in DOMAIN issued :
          ClientSet(Proc1, k, VaultPlaintext, t)
    \/ WriteRead(Proc1)
    \/ WriteStore(Proc1)
    \/ \E q \in TProcs : TokenCreateRead(q)
    \/ \E q \in TProcs : TokenCreateStore(q)

RegisterSpec == Init /\ [][RegisterNext]_vars

\* clients of one process read through the cache while the owner writes
CacheNext ==
    \/ Register1(DefaultHistoryLimit)
    \/ TokenCreate1
    \/ TokenCreateStore(TProc1)
    \/ \E k \in SecretKeys : Add1(k, VaultPlaintext)
    \/ \E k \in SecretKeys, v \in Plaintexts \ {VaultPlaintext} : Edit1(k, v)
    \/ WriteRead(Proc1)
    \/ WriteStore(Proc1)
    \/ \E c \in Clients : Get(c)
    \/ \E c \in Clients, kind \in Kinds : GetFreshValuePEK(c, kind)
    \/ \E c \in Clients, kind \in Kinds : GetFreshValueEnv(c, kind)
    \/ \E d \in Delays : Tick(d)

CacheSpec == Init /\ [][CacheNext]_vars

\* one client reads through the cache and writes with set
Client1 == "c1"

\* the continuation of set runs as soon as the store has answered, before
\* any other call of the process goes on
SetPending == proc[Proc1].result = "set"

SetCall(k, v) ==
    /\ Quiet
    /\ DOMAIN issued # {}
    /\ ClientSet(Proc1, k, v, ClientTokenId)

SetNext ==
    \/ SetReturns(Client1, Proc1)
    \/ SetClearsCache(Client1, Proc1)
    \/ ~SetPending /\ Register1(DefaultHistoryLimit)
    \/ ~SetPending /\ TokenCreate1
    \/ ~SetPending /\ TokenCreateStore(TProc1)
    \/ ~SetPending /\ \E k \in SecretKeys, v \in Plaintexts : SetCall(k, v)
    \/ ~SetPending /\ WriteRead(Proc1)
    \/ ~SetPending /\ WriteStore(Proc1)
    \/ ~SetPending /\ Get(Client1)
    \/ ~SetPending /\ \E kind \in Kinds : GetFreshValuePEK(Client1, kind)
    \/ ~SetPending /\ \E kind \in Kinds : GetFreshValueEnv(Client1, kind)
    \/ ~SetPending /\ \E d \in Delays : Tick(d)

SetSpec == Init /\ [][SetNext]_vars

\* two client instances of one process on the same project and
\* environment: the first holds the issued token, the second a token id
\* and secret that were never issued
Client2 == "c2"

Client2Options == [tokenId |-> "stk_0", token |-> "redenv_sk_0"]

ShareNext ==
    \/ Register1(DefaultHistoryLimit)
    \/ TokenCreate1
    \/ TokenCreateStore(TProc1)
    \/ \E k \in SecretKeys : Add1(k, VaultPlaintext)
    \/ \E k \in SecretKeys, v \in Plaintexts \ {VaultPlaintext} : Edit1(k, v)
    \/ WriteRead(Proc1)
    \/ WriteStore(Proc1)
    \/ \E c \in Clients : Get(c)
    \/ \E kind \in Kinds : GetFreshValuePEK(Client1, kind)
    \/ \E kind \in Kinds :
          GetFreshValuePEKWith(Client2, kind, Client2Options.tokenId,
                               Client2Options.token)
    \/ \E c \in Clients, kind \in Kinds : GetFreshValueEnv(c, kind)
    \/ \E d \in Delays : Tick(d)

ShareSpec == Init /\ [][ShareNext]_vars

\* one client of the self-contained kind, whose set deletes the cache
\* entry, reads through the cache and writes with set; the answer of the
\* store to a fetch and the return of that fetch are separate steps
RefreshNext ==
    \/ SetClearsCache(Client1, Proc1)
    \/ ~SetPending /\ Register1(DefaultHistoryLimit)
    \/ ~SetPending /\ TokenCreate1
    \/ ~SetPending /\ TokenCreateStore(TProc1)
    \/ ~SetPending /\ \E k \in SecretKeys, v \in Plaintexts : SetCall(k, v)
    \/ ~SetPending /\ WriteRead(Proc1)
    \/ ~SetPending /\ WriteStore(Proc1)
    \/ ~SetPending /\ Get(Client1)
    \/ ~SetPending /\ \E kind \in Kinds : GetFreshValuePEK(Client1, kind)
    \/ ~SetPending /\ \E kind \in Kinds : GetFreshValueRead(Client1, kind)
    \/ ~SetPending /\ \E kind \in Kinds : GetFreshValueReturn(Client1, kind)
    \/ ~SetPending /\ \E d \in Delays : Tick(d)

RefreshSpec == Init /\ [][RefreshNext]_vars

\* a client reads and writes with a service token that the owner revokes
RevokeClientToken ==
    /\ Quiet
    /\ DOMAIN issued # {}
    /\ ClientTokenId \notin revoked
    /\ TokenRevokeRead(TProc1, {ClientTokenId})

AccessNext ==
    \/ Register1(DefaultHistoryLimit)
    \/ TokenCreate1
    \/ TokenCreateStore(TProc1)
    \/ \E k \in SecretKeys : Add1(k, VaultPlaintext)
    \/ \E k \in SecretKeys, v \in Plaintexts \ {VaultPlaintext} : SetCall(k, v)
    \/ WriteRead(Proc1)
    \/ WriteStore(Proc1)
    \/ RevokeClientToken
    \/ TokenRevokeStore(TProc1)
    \/ Get(Client1)
    \/ \E kind \in Kinds : GetFreshValuePEK(Client1, kind)
    \/ \E kind \in Kinds : GetFreshValueEnv(Client1, kind)
    \/ \E d \in Delays : Tick(d)

AccessSpec == Init /\ [][AccessNext]_vars

\* a process whose plugins ask for ephemeral tokens, and which is sent
\* termination signals; hours pass
Host == TProc1

Running(q) == ~cli[q].exited

PluginNext ==
    \/ Register1(DefaultHistoryLimit)
    \/ \E plugin \in Plugins :
          /\ Running(Host)
          /\ cli[Host].handlers = <<>>
          /\ EphemeralTokenRead(Host, plugin)
    \/ Running(Host) /\ EphemeralTokenStore(Host)
    \/ Signal(Host)
    \/ \E h \in 1..MaxSignals : CleanupRead(Host, h)
    \/ \E h \in 1..MaxSignals : CleanupStore(Host, h)
    \/ \E h \in 1..MaxSignals : CleanupFails(Host, h)
    \/ \E h \in 1..MaxSignals : CleanupExit(Host, h)
    \/ \E d \in PluginDelays : Tick(d)

PluginSpec == Init /\ [][PluginNext]_vars

\* the plugins of one process call getEphemeralToken; a call may begin
\* while another is waiting for the store (q names the call, not a process)
OverlapNext ==
    \/ \E l \in 0..MaxLimit : Register1(l)
    \/ \E q \in TProcs, plugin \in Plugins :
          EphemeralTokenReadIn(Host, q, plugin)
    \/ \E q \in TProcs : EphemeralTokenStoreIn(Host, q)
    \/ \E d \in PluginDelays : Tick(d)

OverlapSpec == Init /\ [][OverlapNext]_vars

\* token commands, a plugin's ephemeral token and the shutdown cleanup of
\* its process, all on one project, their store round trips interleaved
MapNext ==
    \/ Register1(DefaultHistoryLimit)
    \/ \E q \in TProcs : TokenCreateRead(q)
    \/ \E q \in TProcs : TokenCreateStore(q)
    \/ \E q \in TProcs, t \in DOMAIN meta.serviceTokens :
          TokenRevokeRead(q, {t})
    \/ \E q \in TProcs : TokenRevokeStore(q)
    \/ /\ Running(Host)
       /\ cli[Host].handlers = <<>>
       /\ EphemeralTokenRead(Host, Plugin1)
    \/ Running(Host) /\ EphemeralTokenStore(Host)
    \/ cli[Host].handlers = <<>> /\ Signal(Host)
    \/ CleanupRead(Host, 1)
    \/ CleanupStore(Host, 1)
    \/ CleanupExit(Host, 1)

MapSpec == Init /\ [][MapNext]_vars

\* writeSecret calls of two processes (or of one sync, which starts them
\* together) overlap, never two of them on the same field.  A name with
\* an environment in front is the field of that environment's hash
WriteKeys == {"FOO", "BAR", "production:FOO"}

Disjoint(p, k) == \A o \in Procs \ {p} : proc[o].pc = "idle" \/ proc[o].key # k

DisjointInit ==
    /\ UnregisteredWith(WriteKeys)
    /\ call = NoCall

DisjointNext ==
    \/ \E l \in 0..MaxLimit : Register1(l)
    \/ \E p \in Procs, k \in WriteKeys :
          Disjoint(p, k) /\ AddCommand(p, k, VaultPlaintext)
    \/ \E p \in Procs, k \in WriteKeys, v \in Plaintexts \ {VaultPlaintext} :
          Disjoint(p, k) /\ EditCommand(p, k, v)
    \/ \E p \in Procs : WriteRead(p)
    \/ \E p \in Procs : WriteStore(p)

DisjointSpec == DisjointInit /\ [][DisjointNext]_vars

\* the commands one after another, with calls of writeSecret that fail
FailNext ==
    \/ \E l \in 0..MaxLimit : Register1(l)
    \/ \E k \in SecretKeys, v \in Plaintexts : Add1(k, v)
    \/ \E k \in SecretKeys, v \in Plaintexts : Edit1(k, v)
    \/ \E k \in SecretKeys, v \in Plaintexts, t \in DOMAIN issued :
          ClientSet1(k, v, t)
    \/ WriteRead(Proc1)
    \/ WriteStore(Proc1)
    \/ WriteFails(Proc1)
    \/ TokenCreate1
    \/ TokenCreateStore(TProc1)

FailSpec == Init /\ [][FailNext]_vars

\* the project is registered once and later dropped, while a client that
\* holds a service token, or none, writes
DropProject1 == tproc[TProc1].pc = "idle" /\ DropProject

DropNext ==
    \/ rand = 0 /\ \E l \in 0..MaxLimit : Register1(l)
    \/ TokenCreate1
    \/ TokenCreateStore(TProc1)
    \/ \E k \in SecretKeys, v \in Plaintexts, cred \in ClientCredentials :
          SetSecret(Proc1, k, v, cred.tokenId, cred.token)
    \/ WriteRead(Proc1)
    \/ WriteStore(Proc1)
    \/ DropProject1

DropSpec == Init /\ [][DropNext]_vars

\* a client keeps calling get while the owner writes; the store answers
\* every read and time passes
LiveNext ==
    \/ Register1(DefaultHistoryLimit)
    \/ TokenCreate1
    \/ TokenCreateStore(TProc1)
    \/ \E k \in SecretKeys : Add1(k, VaultPlaintext)
    \/ \E k \in SecretKeys, v \in Plaintexts \ {VaultPlaintext} : Edit1(k, v)
    \/ WriteRead(Proc1)
    \/ WriteStore(Proc1)
    \/ Get(Client1)
    \/ \E kind \in Kinds : GetFreshValuePEK(Client1, kind)
    \/ \E kind \in Kinds : GetFreshValueEnv(Client1, kind)
    \/ \E d \in Delays : Elapse(d)

LiveSpec ==
    /\ Init
    /\ [][LiveNext]_vars
    /\ WF_vars(Get(Client1))
    /\ \A kind \in Kinds : WF_vars(GetFreshValuePEK(Client1, kind))
    /\ \A kind \in Kinds : WF_vars(GetFreshValueEnv(Client1, kind))
    /\ WF_vars(\E d \in Delays : Elapse(d))

(***************************************************************************)
(* The wire form of a ciphertext.  A string is a sequence of characters, a *)
(* buffer a sequence of bytes.  The lengths are scaled down: an IV is one  *)
(* byte (IV_LENGTH is 12), an AES-GCM ciphertext four bytes.  Characters   *)
(* that parseInt skips (white space, a sign) are not in the alphabet.      *)
(***************************************************************************)
HexDigits == <<"0", "1", "2", "3", "4", "5", "6", "7",
               "8", "9", "a", "b", "c", "d", "e", "f">>

UpperHexDigits == <<"A", "B", "C", "D", "E", "F">>

\* the value of a hexadecimal digit of either case; NaN for another character
NaN == -1

hexValue(ch) ==
    IF \E i \in 1..16 : HexDigits[i] = ch
    THEN (CHOOSE i \in 1..16 : HexDigits[i] = ch) - 1
    ELSE IF \E i \in 1..6 : UpperHexDigits[i] = ch
    THEN 9 + (CHOOSE i \in 1..6 : UpperHexDigits[i] = ch)
    ELSE NaN

isHexDigit(ch) == hexValue(ch) # NaN

\* parseInt(s, 16) of a string of one or two characters: the longest prefix
\* of hexadecimal digits, NaN when the first character is not one
parseInt16(str) ==
    IF hexValue(str[1]) = NaN THEN NaN
    ELSE IF Len(str) = 1 \/ hexValue(str[2]) = NaN THEN hexValue(str[1])
    ELSE 16 * hexValue(str[1]) + hexValue(str[2])

\* bufferToHex: two lower-case digits for each byte
bufferToHex(buffer) ==
    [i \in 1..(2 * Len(buffer)) |->
        IF i % 2 = 1
        THEN HexDigits[(buffer[(i + 1) \div 2] \div 16) + 1]
        ELSE HexDigits[(buffer[i \div 2] % 16) + 1]]

\* hexToBuffer: a Uint8Array of hex.length / 2 bytes, each the parseInt of a
\* pair; a Uint8Array stores NaN as 0, and a last odd character is dropped
hexToBuffer(hex) ==
    [j \in 1..(Len(hex) \div 2) |->
        LET n == parseInt16(SubSeq(hex, 2 * j - 1, 2 * j))
        IN IF n = NaN THEN 0 ELSE n]

\* Buffer.from(hex, 'hex'): the pairs of digits up to the first pair that
\* is not hexadecimal
hexToBufferNode(hex) ==
    LET pairs == Len(hex) \div 2
        valid(j) == isHexDigit(hex[2 * j - 1]) /\ isHexDigit(hex[2 * j])
        n == IF \A j \in 1..pairs : valid(j) THEN pairs
             ELSE (CHOOSE j \in 1..pairs :
                      ~valid(j) /\ \A i \in 1..(j - 1) : valid(i)) - 1
    IN [j \in 1..n |-> 16 * hexValue(hex[2 * j - 1]) + hexValue(hex[2 * j])]

\* encryptedString.split(".")
RECURSIVE split(_)
split(str) ==
    IF \A i \in 1..Len(str) : str[i] # "."
    THEN <<str>>
    ELSE LET i == CHOOSE j \in 1..Len(str) :
                     str[j] = "." /\ \A h \in 1..(j - 1) : str[h] # "."
         IN <<SubSeq(str, 1, i - 1)>> \o split(SubSeq(str, i + 1, Len(str)))

\* the plaintexts: strings of up to two UTF-16 code units, among them the
\* byte order mark and a surrogate without its pair
CodeUnits == {"b", "U+FEFF", "U+D800"}

Texts == UNION {[1..n -> CodeUnits] : n \in 0..2}

ReplacementCharacter == "U+FFFD"

\* new TextEncoder().encode(data): the UTF-8 form of the string, a
\* surrogate without its pair replaced by U+FFFD; the bytes of a scalar
\* value are written as the scalar value
TextEncoderEncode(data) ==
    [i \in 1..Len(data) |->
        IF data[i] = "U+D800" THEN ReplacementCharacter ELSE data[i]]

\* new TextDecoder().decode(bytes): ignoreBOM is false, a byte order mark
\* at the start is not part of the result
TextDecoderDecode(bytes) ==
    IF Len(bytes) > 0 /\ bytes[1] = "U+FEFF" THEN Tail(bytes) ELSE bytes

EncodedTexts == {TextEncoderEncode(data) : data \in Texts}

WireKeys == {generateRandomKey(1), generateRandomKey(2)}

\* the IVs crypto.getRandomValues draws
WireIVs == {<<10>>, <<171>>}

\* AES-GCM as an authenticated cipher: the ciphertext is the data masked
\* under key and IV, followed by a tag that no other key, IV or data has
RECURSIVE dataCode(_)
dataCode(data) ==
    IF data = <<>> THEN 0
    ELSE (CHOOSE c \in 1..3 :
             <<"b", "U+FEFF", "U+FFFD">>[c] = data[1]) + 4 * dataCode(Tail(data))

subtleEncrypt(key, iv, data) ==
    <<(dataCode(data) + iv[1] + key[2]) % 256,
      key[2], iv[1], dataCode(data)>>

\* mutation: the ciphertext opens under any key
subtleDecryptAnyKey(key, iv, ciphertext) ==
    LET opened == {data \in EncodedTexts :
                     /\ Len(iv) = 1
                     /\ \E k \in WireKeys :
                           subtleEncrypt(k, iv, data) = ciphertext}
    IN IF opened = {}
       THEN [ok |-> FALSE, data |-> <<>>]
       ELSE [ok |-> TRUE, data |-> CHOOSE data \in opened : TRUE]

\* crypto.subtle.decrypt throws unless the ciphertext was made under the
\* key and the IV
subtleDecrypt(key, iv, ciphertext) ==
    LET opened == {data \in EncodedTexts :
                     Len(iv) = 1 /\ subtleEncrypt(key, iv, data) = ciphertext}
    IN IF opened = {}
       THEN [ok |-> FALSE, data |-> <<>>]
       ELSE [ok |-> TRUE, data |-> CHOOSE data \in opened : TRUE]

\* encrypt of the core package: hex(iv) "." hex(ciphertext)
encryptWire(data, key, iv) ==
    bufferToHex(iv) \o <<".">>
        \o bufferToHex(subtleEncrypt(key, iv, TextEncoderEncode(data)))

EmptyMessage == "Encrypted string cannot be empty."
InvalidFormatMessage == "Invalid encrypted string format."
DecryptionFailedMessage == "Decryption failed."

Thrown(message) == [ok |-> FALSE, error |-> message, data |-> <<>>]

\* decrypt of the core package
decryptWire(encryptedString, key) ==
    IF encryptedString = <<>> THEN Thrown(EmptyMessage)
    ELSE LET parts == split(encryptedString)
         IN IF Len(parts) # 2 \/ parts[1] = <<>> \/ parts[2] = <<>>
            THEN Thrown(InvalidFormatMessage)
            ELSE LET iv == hexToBuffer(parts[1])
                     ciphertext == hexToBuffer(parts[2])
                     decryptedData == subtleDecrypt(key, iv, ciphertext)
                 IN IF decryptedData.ok
                    THEN [ok |-> TRUE, error |-> None,
                          data |-> TextDecoderDecode(decryptedData.data)]
                    ELSE Thrown(DecryptionFailedMessage)

\* decrypt of the CLI
decryptWireCli(encryptedString, key) ==
    LET parts == split(encryptedString)
    IN IF Len(parts) # 2
       THEN Thrown(InvalidFormatMessage)
       ELSE LET iv == hexToBufferNode(parts[1])
                ciphertext == hexToBufferNode(parts[2])
                decryptedData == subtleDecrypt(key, iv, ciphertext)
            IN IF decryptedData.ok
               THEN [ok |-> TRUE, error |-> None,
                     data |-> TextDecoderDecode(decryptedData.data)]
               ELSE Thrown(DecryptionFailedMessage)

\* the characters of the strings handed to decrypt as they are, and of the
\* changes made to a wire string
WireChars == {"0", "a", "A", "g", "."}

WireStrings == UNION {[1..n -> WireChars] : n \in 0..MaxWireLen}

Decrypts == {"core", "cli"}

NoOutcome == [ok |-> FALSE, error |-> None, data |-> <<>>]

\* either a plaintext and a key to encrypt it with, or a string to decrypt
CryptoInit ==
    /\ Unregistered
    /\ \/ \E data \in Texts, key \in WireKeys :
            call = [fn |-> "crypto", pc |-> "plain", data |-> data,
                    key |-> key, wire |-> <<>>, valid |-> <<>>,
                    with |-> NoKey, by |-> None, out |-> NoOutcome]
       \/ \E str \in WireStrings :
            call = [fn |-> "crypto", pc |-> "wire", data |-> <<>>,
                    key |-> NoKey, wire |-> str, valid |-> <<>>,
                    with |-> NoKey, by |-> None, out |-> NoOutcome]

cryptoStep == UNCHANGED <<now, lru, fetch, gets, meta, env, clock, rand, proc,
                          tproc, keyGhosts, storeGhosts, cli>>

Encrypt(iv) ==
    /\ call.fn = "crypto"
    /\ call.pc = "plain"
    /\ LET str == encryptWire(call.data, call.key, iv)
       IN call' = [call EXCEPT !.pc = "wire", !.wire = str, !.valid = str]
    /\ cryptoStep

\* one character of the wire string is replaced by another
Tamper(i, ch) ==
    /\ call.fn = "crypto"
    /\ call.pc = "wire"
    /\ call.wire = call.valid
    /\ call.valid # <<>>
    /\ i \in 1..Len(call.wire)
    /\ ch # call.wire[i]
    /\ call' = [call EXCEPT !.wire[i] = ch]
    /\ cryptoStep

Decrypt(key, by) ==
    /\ call.fn = "crypto"
    /\ call.pc = "wire"
    /\ call' = [call EXCEPT
                  !.pc = "done", !.with = key, !.by = by,
                  !.out = IF by = "core" THEN decryptWire(call.wire, key)
                          ELSE decryptWireCli(call.wire, key)]
    /\ cryptoStep

CryptoNext ==
    \/ \E iv \in WireIVs : Encrypt(iv)
    \/ \E i \in 1..(2 * MaxWireLen), ch \in WireChars : Tamper(i, ch)
    \/ \E key \in WireKeys, by \in Decrypts : Decrypt(key, by)

CryptoSpec == CryptoInit /\ [][CryptoNext]_vars

(***************************************************************************)
(* Properties.                                                             *)
(***************************************************************************)
\* the step in which process p's writeSecret overwrites its key's field
StoreStepOf(p) == proc[p].pc = "store" /\ proc'[p].pc = "idle"

\* the length a history of n entries has after a trim to limit
lengthUnder(n, limit) == IF limit > 0 THEN Min(n, limit) ELSE n

plainOf(rec) == decrypt(rec.value, pek0).pt

\* C1: the writes made one after another to a key that started absent
\* carry the versions 1, 2, ..., N in order, whatever was trimmed
C1_VersionsCountFromOne ==
    \A k \in SecretKeys :
        ~overlapped[k] =>
            \A i \in 1..Len(seqWrites[k]) : seqWrites[k][i] = i

\* three writes in a row to one key, the oldest version already trimmed,
\* one of them made by the client's set
C1_Witness ==
    \E k \in DOMAIN env :
        /\ ~overlapped[k]
        /\ Len(seqWrites[k]) >= 3
        /\ Len(env[k]) < Len(seqWrites[k])
        /\ \E i \in 1..Len(env[k]) : env[k][i].user # CliUser

\* C2: after N writes in a row to a key that started absent, under a
\* history limit L that stayed the same, the history has min(N, L) entries
\* when L > 0 and N entries when L = 0
C2_LengthIsMinOfWritesAndLimit ==
    \A k \in DOMAIN env :
        (~overlapped[k] /\ ~limitMoved[k]) =>
            Len(env[k]) = lengthUnder(Len(seqWrites[k]), limitOf(meta))

\* three writes under limit 2 left two entries
C2_Witness ==
    \E k \in DOMAIN env :
        /\ ~overlapped[k]
        /\ ~limitMoved[k]
        /\ Len(seqWrites[k]) = 3
        /\ limitOf(meta) = 2
        /\ Len(env[k]) = 2

\* C3: a writeSecret that no other store operation overlapped replaces
\* the list by the new record followed by the old records, in order and
\* unchanged, cut at the tail to the limit; and every stored record is a
\* record exactly as some write made it
C3_WritePrependsAndTrims ==
    /\ [](\A k \in DOMAIN env : \A r \in Records(env[k]) :
             [key |-> k, rec |-> r] \in assigned)
    /\ [][\A p \in Procs :
            (/\ StoreStepOf(p)
             /\ proc[p].history = historyOf(proc[p].key)
             /\ proc[p].limit = limitOf(meta)) =>
                LET k == proc[p].key
                    old == historyOf(k)
                    new == env'[k]
                IN /\ Len(new) = lengthUnder(Len(old) + 1, limitOf(meta))
                   /\ new[1].version = proc[p].rec.version
                   /\ new[1].user = proc[p].user
                   /\ \A i \in 1..Len(old) :
                         new[1].createdAt > old[i].createdAt
                   /\ decrypt(new[1].value, proc[p].pek).pt = proc[p].value
                   /\ \A i \in 2..Len(new) : new[i] = old[i - 1]]_vars

\* a write has dropped the oldest record of a full history
C3_Witness ==
    \E k \in DOMAIN env :
        /\ limitOf(meta) = 2
        /\ Len(env[k]) = 2
        /\ env[k][2].version = 2
        /\ \A p \in Procs : proc[p].pc = "idle"

\* C4: when a write stores after another writer, which had read the same
\* history, stored its own version, the stored history is the later
\* writer's list: its new version at the head, the other writer's version
\* gone, and the later writer too is told it succeeded
C4_LastWriterWins ==
    [][\A p \in Procs :
         (StoreStepOf(p) /\ rival[p] # NoRec) =>
            LET new == env'[proc[p].key]
            IN /\ new[1] = proc[p].rec
               /\ rival[p] \notin Records(new)
               /\ \A i \in 2..Len(new) : new[i] = proc[p].history[i - 1]
               /\ [key |-> proc[p].key, rec |-> rival[p]] \in assigned
               /\ proc'[p].result = succeeded(proc[p].op)]_vars

\* two writers read [v1] and both stored a version 2; one of them is lost
C4_Witness ==
    \E k \in DOMAIN env : \E a \in assigned :
        /\ overlapped[k]
        /\ a.key = k
        /\ Len(env[k]) >= 2
        /\ a.rec.version = env[k][1].version
        /\ a.rec # env[k][1]
        /\ a.rec.createdAt > env[k][2].createdAt
        /\ a.rec \notin Records(env[k])
        /\ \A p \in Procs : proc[p].pc = "idle"

\* C5: no version number is assigned to two different written versions
\* of the same secret key
C5_VersionsNeverReused ==
    \A a, b \in assigned :
        (a.key = b.key /\ a.rec.version = b.rec.version) => a = b

\* add FOO, remove FOO, add FOO: two different records of one key, written
\* one after another, both carry version 1
C5_Witness ==
    \E a, b \in assigned :
        /\ a.key = b.key
        /\ a.rec.version = 1
        /\ b.rec.version = 1
        /\ a.rec.createdAt < b.rec.createdAt
        /\ a.rec \notin Records(historyOf(a.key))
        /\ b.rec \in Records(historyOf(a.key))

\* C6: in every state every history has at most L entries when the
\* configured limit L is greater than 0
C6_HistoryWithinLimit ==
    \A k \in DOMAIN env :
        limitOf(meta) > 0 => Len(env[k]) <= limitOf(meta)

\* the limit was lowered to 1 under a key that holds two versions, and no
\* command is in flight
C6_Witness ==
    \E k \in DOMAIN env :
        /\ Quiet
        /\ limitOf(meta) = 1
        /\ Len(env[k]) = 2

\* C7: a rollback to version V of the history, not overlapped by another
\* store operation, puts a new head whose plaintext is that of V and
\* whose version is the prior head's plus 1 in front of the prior
\* history, which stays as it was but for the trim
C7_RollbackAppendsTargetContent ==
    [][\A p \in Procs :
         (/\ StoreStepOf(p)
          /\ proc[p].op = "rollback"
          /\ proc[p].fetched = historyOf(proc[p].key)
          /\ proc[p].history = historyOf(proc[p].key)
          /\ proc[p].limit = limitOf(meta)) =>
             LET old == env[proc[p].key]
                 new == env'[proc[p].key]
             IN /\ proc[p].to \in Versions(old)
                /\ plainOf(new[1]) = plainOf(find(old, proc[p].to))
                /\ new[1].version = old[1].version + 1
                /\ Len(new) = lengthUnder(Len(old) + 1, limitOf(meta))
                /\ \A i \in 2..Len(new) : new[i] = old[i - 1]]_vars

\* [v2 baz, v1 bar] rolled back to v1 is [v3 bar, v2 baz, v1 bar]
C7_Witness ==
    \E k \in DOMAIN env : \E p \in Procs :
        /\ proc[p].result = "rolled-back"
        /\ Len(env[k]) = 3
        /\ Versions(env[k]) = {1, 2, 3}
        /\ plainOf(env[k][1]) = plainOf(env[k][3])
        /\ plainOf(env[k][1]) # plainOf(env[k][2])

\* C8: a rollback whose target is the current head version, or is not in
\* the history, or whose key has fewer than two versions, is refused and
\* leaves the store as it was
C8_RollbackRefused ==
    [][\A p \in Procs :
         (proc[p].pc = "fetch" /\ proc'[p].pc # "fetch") =>
            LET history == historyOf(proc[p].key)
                to == proc[p].to
            IN (\/ Len(history) < 2
                \/ (to # 0 /\ to = history[1].version)
                \/ (to # 0 /\ to \notin Versions(history))) =>
                   /\ proc'[p].pc = "idle"
                   /\ proc'[p].result \in
                         {"no-secret", "no-previous-versions",
                          "is-current-version", "version-not-found"}
                   /\ env' = env
                   /\ meta' = meta]_vars

\* a rollback to the current head version has been refused
C8_Witness ==
    \E p \in Procs : \E k \in DOMAIN env :
        /\ proc[p].result = "is-current-version"
        /\ Len(env[k]) >= 2

\* C9: the password-wrapped copy under the current master password and
\* every stored token's copy under that token's secret unwrap to the PEK
\* generated at registration
C9_AllCopiesUnwrapToThePEK ==
    meta.exists =>
        /\ unlockProject(password) = pek0
        /\ \A t \in DOMAIN meta.serviceTokens :
              /\ t \in DOMAIN issued
              /\ getPEK(t, issued[t]).ok
              /\ getPEK(t, issued[t]).pek = pek0

\* a token issued under the PEK of the first registration is stored, and
\* the password copy, replaced by a second, overlapping registration, gives
\* another PEK
C9_Witness ==
    /\ \A q \in TProcs : tproc[q].pc = "idle"
    /\ unlockProject(password) # NoKey
    /\ \E t \in (DOMAIN meta.serviceTokens) \cap (DOMAIN issued) :
          /\ getPEK(t, issued[t]).ok
          /\ getPEK(t, issued[t]).pek # unlockProject(password)

\* C10: once a token's revocation has completed, an unwrap with its id
\* and secret never succeeds
C10_RevokedTokenNeverUnwraps ==
    \A t \in revoked : ~getPEK(t, issued[t]).ok

\* a token whose revocation has completed is back in the token map, put
\* there by an issuance that had read the map before the revocation, and
\* its secret unwraps the PEK
C10_Witness ==
    \E t \in revoked :
        /\ t \in DOMAIN meta.serviceTokens
        /\ getPEK(t, issued[t]).ok
        /\ getPEK(t, issued[t]).pek = pek0
        /\ \A q \in TProcs : tproc[q].pc = "idle"

\* the step in which process q's token revoke overwrites the token map
RevokeStepOf(q) ==
    /\ tproc[q].pc = "store"
    /\ tproc[q].op = "revoke"
    /\ tproc'[q].pc = "idle"

\* C11: a completed revoke leaves the password-wrapped copy, the salt, the
\* history limit and every history as they were, the master password
\* still unwraps the PEK, and every token of the stored map that was not
\* among the revoked ids unwraps the same PEK after the revoke as before
C11_RevokeLeavesOthersAlone ==
    [][\A q \in TProcs :
         RevokeStepOf(q) =>
            /\ meta'.encryptedPEK = meta.encryptedPEK
            /\ meta'.salt = meta.salt
            /\ meta'.historyLimit = meta.historyLimit
            /\ env' = env
            /\ unlockProject(password)' = unlockProject(password)
            /\ \A t \in (DOMAIN meta.serviceTokens) \ tproc[q].ids :
                  getPEK(t, issued[t])' = getPEK(t, issued[t])]_vars

\* a token was issued and never revoked, a revoke of another token has
\* completed, and the issued token is no longer in the stored map
C11_Witness ==
    \E t \in (DOMAIN issued) \ revoked :
        /\ revoked # {}
        /\ t \notin DOMAIN meta.serviceTokens
        /\ ~getPEK(t, issued[t]).ok
        /\ unlockProject(password) = pek0
        /\ \E q \in TProcs : tproc[q].result = "revoked"
        /\ \A q \in TProcs : tproc[q].pc = "idle"

\* the step in which process q's change-password overwrites the wrapped PEK
RotateStepOf(q) ==
    /\ tproc[q].pc = "store"
    /\ tproc[q].op = "change-password"
    /\ tproc'[q].pc = "idle"

\* C12: once a change-password has stored its blob, the new password
\* unwraps the PEK that was in use before, and every other password, the
\* old one among them, unwraps nothing
C12_NewPasswordUnwrapsOldFails ==
    [][\A q \in TProcs :
         RotateStepOf(q) =>
            \A pw \in Passwords :
               IF pw = tproc[q].newPassword
               THEN /\ unlockProject(pw)' # NoKey
                    /\ unlockProject(pw)' = unlockProject(password)
                    /\ unlockProject(pw)' = pek0
               ELSE unlockProject(pw)' = NoKey]_vars

\* the password was changed from the one given at registration to another
\* one; the new one unwraps the PEK and the old one does not
C12_Witness ==
    /\ \E q \in TProcs : tproc[q].result = "password-changed"
    /\ password # OwnerPassword
    /\ unlockProject(password) = pek0
    /\ unlockProject(OwnerPassword) = NoKey
    /\ \A q \in TProcs : tproc[q].pc = "idle"

\* C13: the store of a change-password leaves the token map and every
\* history as they were, and every token of the map unwraps the PEK after
\* it as before
C13_RotationLeavesTokensAlone ==
    [][\A q \in TProcs :
         RotateStepOf(q) =>
            /\ meta'.serviceTokens = meta.serviceTokens
            /\ env' = env
            /\ \A t \in DOMAIN meta.serviceTokens :
                  /\ getPEK(t, issued[t])' = getPEK(t, issued[t])
                  /\ getPEK(t, issued[t])'.ok
                  /\ getPEK(t, issued[t])'.pek = pek0]_vars

\* the password was changed while a token and a secret were stored; the
\* token still unwraps the PEK and the secret still decrypts under it
C13_Witness ==
    /\ tproc[TProc1].result = "password-changed"
    /\ password # OwnerPassword
    /\ \E t \in DOMAIN meta.serviceTokens :
          /\ getPEK(t, issued[t]).pek = pek0
          /\ meta.serviceTokens[t].encryptedPEK.iv < meta.encryptedPEK.iv
    /\ \E k \in DOMAIN env :
          /\ Len(env[k]) >= 1
          /\ decrypt(env[k][1].value, pek0).ok

\* C14: the store of a change-password leaves a salt that is not the one
\* stored before, and the new wrapped PEK unwraps under the key derived
\* from the new password and the stored salt
C14_RotationStoresFreshSalt ==
    [][\A q \in TProcs :
         RotateStepOf(q) =>
            /\ meta'.salt # meta.salt
            /\ meta'.encryptedPEK.key =
                  deriveKey(tproc[q].newPassword, meta'.salt)]_vars

\* the password was changed to another one and the stored salt is still
\* the one generated at registration
C14_Witness ==
    /\ \E q \in TProcs : tproc[q].result = "password-changed"
    /\ password # OwnerPassword
    /\ meta.salt = 1
    /\ meta.encryptedPEK.iv > 3
    /\ meta.encryptedPEK.key = deriveKey(password, 1)
    /\ unlockProject(password) = pek0

\* the strings that must stay out of the store: the master passwords and
\* the token secrets, handed out or still being issued
Secrets ==
    (Passwords \cup {issued[t] : t \in DOMAIN issued}
               \cup {tproc[q].secret : q \in TProcs}) \ {None}

\* ct is the PEK, exported, encrypted under a key derived from a secret
WrappedPEK(ct) ==
    /\ ct.iv # 0
    /\ ct.key # pek0
    /\ ct.key[1] = "derived"
    /\ ct.key[2] \in Secrets
    /\ importKey(ct.pt) = pek0

\* C15: in every state the store holds the PEK only wrapped under a key
\* derived from a password or a token secret, secret values only encrypted
\* under the PEK, and no password or token secret in any field or field name
C15_StoreHoldsNoCleartext ==
    /\ meta.exists => WrappedPEK(meta.encryptedPEK)
    /\ \A t \in DOMAIN meta.serviceTokens :
          /\ t \notin Secrets
          /\ WrappedPEK(meta.serviceTokens[t].encryptedPEK)
    /\ \A k \in DOMAIN env :
          /\ k \notin Secrets
          /\ \A r \in Records(env[k]) :
                /\ r.user \notin Secrets
                /\ r.value.iv # 0
                /\ r.value.key = pek0

\* register, change-password, a service token, an ephemeral token and a
\* write through the client have all stored their values
C15_Witness ==
    /\ password # OwnerPassword
    /\ meta.encryptedPEK.iv > 3
    /\ \E t \in DOMAIN meta.serviceTokens : isEphemeral(meta.serviceTokens[t])
    /\ \E t \in DOMAIN meta.serviceTokens : ~isEphemeral(meta.serviceTokens[t])
    /\ \E k \in DOMAIN env : \E r \in Records(env[k]) :
          r.user \in DOMAIN meta.serviceTokens
    /\ \E k \in DOMAIN env : \E r \in Records(env[k]) : r.user = CliUser

\* the keys there are: the PEKs generated so far, and the wrapping keys
\* derived from a password or a token secret
KeysInUse ==
    {generateRandomKey(r) : r \in 0..rand}
    \cup {meta.encryptedPEK.key}
    \cup {meta.serviceTokens[t].encryptedPEK.key : t \in DOMAIN meta.serviceTokens}

\* the keys the stored wrapped copies give: the password copy under the
\* current master password, each token's copy under that token's secret
RecoverablePEKs ==
    {unlockProject(password)}
    \cup {getPEK(t, issued[t]).pek :
             t \in (DOMAIN meta.serviceTokens) \cap (DOMAIN issued)}

\* C16: in every state, every stored version of every secret decrypts under
\* the key that each stored wrapped copy of the PEK gives, and under no
\* other key
C16_VersionsDecryptUnderCurrentPEK ==
    \A k \in DOMAIN env : \A r \in Records(env[k]) :
        /\ \A key \in RecoverablePEKs : decrypt(r.value, key).ok
        /\ \A key \in KeysInUse \ RecoverablePEKs : ~decrypt(r.value, key).ok

\* a version written under the PEK of the first registration is in the
\* store after a second, overlapping registration has replaced the wrapped
\* PEK: the current master password gives a key that does not decrypt it
C16_Witness ==
    /\ \A q \in TProcs : tproc[q].pc = "idle"
    /\ \A p \in Procs : proc[p].pc = "idle"
    /\ unlockProject(password) # NoKey
    /\ \E k \in DOMAIN env : \E r \in Records(env[k]) :
          /\ ~decrypt(r.value, unlockProject(password)).ok
          /\ \E x \in 0..rand : decrypt(r.value, generateRandomKey(x)).ok

\* the entry the clients' cache key has in the module's cache
CachedEntry == lru["lru"][getCacheKey(Project, Environment)]

\* the map a fetch of the environment gives now
StoredSecrets ==
    [k \in DOMAIN env |-> decrypt(env[k][1].value, pek0).pt]

\* C17: a get on a cache entry younger than ttl returns the cached map,
\* waits for nothing and starts no fetch, so no call goes to the store
C17_FreshGetAnswersFromCache ==
    [][\A c \in Clients :
          (/\ Get(c)
           /\ CachedEntry.present
           /\ now - CachedEntry.createdTime < CacheOptions.ttl * 1000)
          => /\ fetch' = fetch
             /\ lru' = lru
             /\ ~gets'[c].waiting
             /\ gets'[c].map = CachedEntry.value]_vars

\* a get was answered from an entry half a second old, with a map that is
\* no longer the one the store holds, and no fetch is in flight
C17_Witness ==
    \E c \in Clients :
        /\ gets[c].observed = "Fresh"
        /\ gets[c].served = "cache"
        /\ CachedEntry.present
        /\ now - CachedEntry.createdTime > 0
        /\ now - CachedEntry.createdTime < CacheOptions.ttl * 1000
        /\ gets[c].map = CachedEntry.value
        /\ gets[c].map # StoredSecrets
        /\ \A d \in Clients, kind \in Kinds : fetch[d][kind].pc = "idle"

\* the step in which the background refresh begun by client d completes
RefreshDoneBy(d) ==
    /\ fetch[d]["background"].pc = "env"
    /\ fetch'[d]["background"].pc = "idle"

\* C18: a get on an entry of age at least ttl and less than ttl + swr
\* returns the cached map without waiting, and a background fetch is then
\* in flight; when a background fetch completes, the map it fetched replaces
\* the entry and the entry's age is 0
C18_StaleGetAnswersAndRefreshes ==
    [][/\ \A c \in Clients :
             (/\ Get(c)
              /\ CachedEntry.present
              /\ now - CachedEntry.createdTime >= CacheOptions.ttl * 1000
              /\ now - CachedEntry.createdTime
                    < (CacheOptions.ttl + CacheOptions.staleWhileRevalidate)
                      * 1000)
             => /\ ~gets'[c].waiting
                /\ gets'[c].map = CachedEntry.value
                /\ lru' = lru
                /\ \E d \in Clients : fetch'[d]["background"].pc # "idle"
       /\ \A d \in Clients :
             RefreshDoneBy(d)
             => /\ CachedEntry'.present
                /\ CachedEntry'.value = StoredSecrets
                /\ now' - CachedEntry'.createdTime = 0]_vars

\* a get was answered from a stale entry, and the background refresh it
\* started has since replaced the entry with another map, of age 0
C18_Witness ==
    \E c \in Clients :
        /\ gets[c].observed = "Stale"
        /\ gets[c].served = "cache"
        /\ CachedEntry.present
        /\ CachedEntry.value # gets[c].map
        /\ CachedEntry.createdTime = now
        /\ \A d \in Clients, kind \in Kinds : fetch[d][kind].pc = "idle"
        /\ \A d \in Clients : gets[d].served # "fetch"

\* the step in which the fetch that client c's get waits for completes
FetchDoneFor(c) ==
    /\ fetch[c]["blocking"].pc = "env"
    /\ fetch'[c]["blocking"].pc = "idle"

\* C19: a get that finds no entry, or an entry of age at least ttl + swr,
\* returns no cached map: it waits for a fetch of the environment, and when
\* the fetch completes the fetched map is the new entry, of age 0, and the
\* map the get returns
C19_EmptyOrExpiredGetFetches ==
    [][\A c \in Clients :
          /\ (/\ Get(c)
              /\ \/ ~CachedEntry.present
                 \/ now - CachedEntry.createdTime
                      >= (CacheOptions.ttl + CacheOptions.staleWhileRevalidate)
                         * 1000)
             => /\ gets'[c].waiting
                /\ gets'[c].served = None
                /\ gets'[c].map = <<>>
                /\ fetch'[c]["blocking"].pc = "pek"
                /\ lru' = lru
          /\ (gets[c].waiting /\ gets'[c].waiting) => gets'[c] = gets[c]
          /\ (gets[c].waiting /\ ~gets'[c].waiting)
             => /\ FetchDoneFor(c)
                /\ gets'[c].served = "fetch"
                /\ gets'[c].map = StoredSecrets
                /\ CachedEntry' = [present |-> TRUE, value |-> StoredSecrets,
                                   createdTime |-> now']
                /\ now' - CachedEntry'.createdTime < CacheOptions.ttl * 1000]_vars

\* one get found the cache empty and another found the entry expired; the
\* second has returned the map it fetched, which is not the map that was
\* cached before and is the new entry, of age 0
C19_Witness ==
    \E c, d \in Clients :
        /\ gets[c].observed = "Expired"
        /\ gets[c].served = "fetch"
        /\ gets[d].observed = "Empty"
        /\ gets[d].served = "fetch"
        /\ gets[c].map # gets[d].map
        /\ CachedEntry.value = gets[c].map
        /\ CachedEntry.createdTime = now

\* the clients whose background refresh of the cache key is in flight
RefreshesOf(key) ==
    {d \in Clients : /\ fetch[d]["background"].pc # "idle"
                     /\ fetch[d]["background"].key = key}

\* C20: no cache key ever has two background refreshes in flight, and a get
\* that finds the entry stale while a refresh of the key is in flight starts
\* no fetch
C20_OneRefreshPerKey ==
    [][/\ \A key \in CacheKeys : Cardinality(RefreshesOf(key)') <= 1
       /\ \A c \in Clients :
             (/\ Get(c)
              /\ gets'[c].observed = "Stale"
              /\ RefreshesOf(getCacheKey(Project, Environment)) # {})
             => fetch' = fetch]_vars

\* both clients called get on the same stale entry, the second while the
\* refresh begun by the first was in flight; one refresh is in flight
C20_Witness ==
    /\ CachedEntry.present
    /\ CachedEntry.createdTime = 0
    /\ \A c \in Clients : /\ gets[c].observed = "Stale"
                          /\ gets[c].served = "cache"
    /\ Cardinality(RefreshesOf(getCacheKey(Project, Environment))) = 1
    /\ \A c \in Clients : fetch[c]["blocking"].pc = "idle"

\* the step in which client c's set returns
SetReturnOf(c) ==
    /\ gets[c].served # "set"
    /\ gets'[c].served = "set"

\* C21: when a client's set returns, its cache key has no entry; the get
\* that follows the set waits for a fetch, and the store then holds the
\* value the set wrote
C21_SetClearsTheCacheEntry ==
    [][\A c \in Clients :
          /\ SetReturnOf(c) => ~CachedEntry'.present
          /\ (Get(c) /\ gets[c].served = "set")
             => /\ gets'[c].waiting
                /\ fetch'[c]["blocking"].pc = "pek"
                /\ \A k \in DOMAIN gets[c].map :
                      /\ k \in DOMAIN StoredSecrets
                      /\ StoredSecrets[k] = gets[c].map[k]]_vars

\* a set has returned, and the get that followed it was answered from the
\* cache with a map in which the key does not have the value that was set
C21_Witness ==
    \E c \in Clients :
        /\ gets[c].observed = "Fresh"
        /\ gets[c].served = "cache"
        /\ proc[Proc1].result = "returned"
        /\ \E k \in DOMAIN StoredSecrets :
              \/ k \notin DOMAIN gets[c].map
              \/ gets[c].map[k] # StoredSecrets[k]
        /\ gets[c].map = CachedEntry.value
        /\ \A kind \in Kinds : fetch[c][kind].pc = "idle"

\* the maps an environment can decrypt to
SecretMaps ==
    UNION {[S -> Plaintexts] : S \in SUBSET SecretKeys}

\* client c's latest get has returned the map m
Returned(c, m) ==
    /\ gets[c].served \in {"cache", "fetch"}
    /\ ~gets[c].waiting
    /\ gets[c].map = m

\* C22: whenever the store holds a map of secrets and a client with a token
\* keeps calling get, the client's get eventually returns that map, unless
\* the store is changed again first
C22_GetEventuallyReturnsStoredValue ==
    \A m \in SecretMaps :
        (StoredSecrets = m /\ DOMAIN issued # {})
        ~> (StoredSecrets # m \/ Returned(Client1, m))

\* the client had returned a map that the owner has since replaced in the
\* store; a refresh has replaced the cached entry, and the client's latest
\* get returned the new map
C22_Witness ==
    /\ Cardinality(assigned) >= 2
    /\ Returned(Client1, StoredSecrets)
    /\ CachedEntry.present
    /\ CachedEntry.value = StoredSecrets
    /\ CachedEntry.createdTime > 0
    /\ \E k \in DOMAIN env : plainOf(env[k][1]) # plainOf(env[k][2])
    /\ proc[Proc1].pc = "idle"

\* the head of the stored value is a version encrypted under the key
HeadUnder(value, key) ==
    /\ value.isArray
    /\ Len(value.items) > 0
    /\ value.items[1].value.iv # 0
    /\ value.items[1].value.key = key

\* C23: fetchAndDecrypt returns a map whose keys are exactly the fields
\* whose value is a non-empty array with a head encrypted under the PEK,
\* each with the plaintext of that head; the other fields are left out,
\* and the map is the one the fetch returns when they are not in the hash
C23_FetchKeepsExactlyTheDecryptableHeads ==
    (call.fn = "fetchAndDecrypt" /\ call.pc = "returned") =>
        LET h == call.versionedSecrets
            kept == {k \in DOMAIN h : HeadUnder(h[k], call.pek)}
        IN /\ DOMAIN call.secrets = kept
           /\ \A k \in kept : call.secrets[k] = h[k].items[1].value.pt
           /\ call.secrets =
                fetchAndDecrypt(call.pek, [k \in kept |-> h[k]])

\* a fetch has returned one key of two: the other key's head is under
\* another key, though an older version of it is under the PEK
C23_Witness ==
    /\ call.fn = "fetchAndDecrypt"
    /\ call.pc = "returned"
    /\ DOMAIN call.versionedSecrets = FetchKeys
    /\ Cardinality(DOMAIN call.secrets) = 1
    /\ \E k \in FetchKeys \ DOMAIN call.secrets :
          LET items == call.versionedSecrets[k].items
          IN /\ Len(items) = 2
             /\ items[1].value.key = ForeignPEK
             /\ items[2].value.key = FetchPEK

\* a wire string is well formed: not empty, and split by "." into exactly
\* two fields, each a non-empty string of hexadecimal digits
WellFormed(str) ==
    /\ str # <<>>
    /\ Len(split(str)) = 2
    /\ \A p \in 1..2 :
          /\ split(str)[p] # <<>>
          /\ \A i \in 1..Len(split(str)[p]) : isHexDigit(split(str)[p][i])

InvalidFormat == {EmptyMessage, InvalidFormatMessage}

DecryptionFailed == {DecryptionFailedMessage}

Decrypted == call.fn = "crypto" /\ call.pc = "done"

\* C24: decrypt of a string that is not well formed fails with InvalidFormat,
\* and decrypt fails with DecryptionFailed only on a well-formed string
C24_MalformedInputIsInvalidFormat ==
    Decrypted =>
        /\ ~WellFormed(call.wire) => call.out.error \in InvalidFormat
        /\ call.out.error \in DecryptionFailed => WellFormed(call.wire)

\* decrypt of the core package has reported a string with a field that is
\* not hexadecimal as a failed decryption
C24_Witness ==
    /\ Decrypted
    /\ call.by = "core"
    /\ call.valid = <<>>
    /\ Len(split(call.wire)) = 2
    /\ \E i \in 1..Len(call.wire) : call.wire[i] = "g"
    /\ call.out.error \in DecryptionFailed

\* the string decrypted is the one encrypt returned
Untouched == call.valid # <<>> /\ call.wire = call.valid

\* C25: decrypt of what encrypt returned for a plaintext, under the same
\* key, returns that plaintext
C25_DecryptInvertsEncrypt ==
    (Decrypted /\ Untouched /\ call.with = call.key) =>
        /\ call.out.ok
        /\ call.out.data = call.data

\* a plaintext that starts with a byte order mark came back without it
C25_Witness ==
    /\ Decrypted
    /\ Untouched
    /\ call.with = call.key
    /\ call.by = "core"
    /\ call.data = <<"U+FEFF", "b">>
    /\ call.out.ok
    /\ call.out.data = <<"b">>

\* C26 as stated: decrypt of a valid wire string under another key, or of a
\* valid wire string with one character changed, fails with DecryptionFailed
C26_WrongKeyOrAnyChangeFailsDecryption ==
    (Decrypted /\ call.valid # <<>>
        /\ (call.with # call.key \/ call.wire # call.valid)) =>
        call.out.error \in DecryptionFailed

\* the buffers decrypt decodes from the two fields of a string
decoded(str, by) ==
    LET parts == split(str)
    IN IF by = "core"
       THEN <<hexToBuffer(parts[1]), hexToBuffer(parts[2])>>
       ELSE <<hexToBufferNode(parts[1]), hexToBufferNode(parts[2])>>

\* C26 amended: decrypt of a valid wire string under another key, or of a
\* string that still has two fields and whose IV or ciphertext bytes differ
\* from the valid string's, fails with DecryptionFailed; a changed string
\* never decrypts to a plaintext other than the one the valid string has
C26_WrongKeyOrChangedBytesFailDecryption ==
    (Decrypted /\ call.valid # <<>>) =>
        /\ (/\ Len(split(call.wire)) = 2
            /\ \/ call.with # call.key
               \/ decoded(call.wire, call.by) # decoded(call.valid, call.by))
           => call.out.error \in DecryptionFailed
        /\ call.out.ok =>
              /\ call.with = call.key
              /\ call.out.data =
                   TextDecoderDecode(TextEncoderEncode(call.data))

\* a byte of the ciphertext was changed and decrypt under the right key
\* failed with DecryptionFailed
C26_Witness ==
    /\ Decrypted
    /\ call.valid # <<>>
    /\ call.with = call.key
    /\ Len(split(call.wire)) = 2
    /\ split(call.wire)[1] = split(call.valid)[1]
    /\ decoded(call.wire, call.by)[2] # decoded(call.valid, call.by)[2]
    /\ call.out.error \in DecryptionFailed

\* a hexadecimal digit of the IV was changed to its upper case and decrypt
\* returned the plaintext; the separator was changed and decrypt failed
\* with InvalidFormat
C26_SameBytesDecrypt ==
    /\ Decrypted
    /\ call.wire # call.valid
    /\ call.valid # <<>>
    /\ call.out.ok

\* the step ends process p's call of writeSecret with the final overwrite
WriteAccepted(p) ==
    /\ proc[p].pc = "store"
    /\ proc'[p].result = succeeded(proc[p].op)

\* C27: a step of writeSecret other than the accepted final overwrite
\* leaves the metadata and the environment hash as they are, so after a
\* failed call the key's history is the one the call read; the accepted
\* overwrite changes the field of its key and nothing else
C27_FailedWriteLeavesStoreIntact ==
    [][\A p \in {Proc1} :
          proc[p].pc \in {"read", "store"} =>
             IF WriteAccepted(p)
             THEN /\ meta' = meta
                  /\ DOMAIN env' = DOMAIN env \cup {proc[p].key}
                  /\ \A k \in DOMAIN env \ {proc[p].key} : env'[k] = env[k]
             ELSE /\ meta' = meta
                  /\ env' = env
                  /\ proc'[p].result = "failed" /\ proc[p].pc = "store"
                        => /\ proc[p].key \in DOMAIN env'
                                 => env'[proc[p].key] = proc[p].history
                           /\ proc[p].key \notin DOMAIN env'
                                 => proc[p].history = <<>>]_vars

\* a call of writeSecret has failed after it had read and encrypted: the
\* key still has the version written before, and nothing of the failed one
C27_Witness ==
    /\ proc[Proc1].result = "failed"
    /\ Cardinality(assigned) = 1
    /\ clock = 2
    /\ \E k \in DOMAIN env : Len(env[k]) = 1 /\ env[k][1].createdAt = 1

\* the ephemeral token's time to live has elapsed
Expired(tokenInfo) == isEphemeral(tokenInfo) /\ now >= tokenInfo.expiresAt

\* C28: once the time to live of an ephemeral token has elapsed its record
\* is not in the store, and getPEK with its secret fails, whether or not
\* the cleanup has run
C28_ExpiredEphemeralTokenIsGone ==
    \A t \in DOMAIN issued :
        /\ t \in DOMAIN meta.serviceTokens => ~Expired(meta.serviceTokens[t])
        /\ (\E pl \in DOMAIN cli[Host].ephemeralTokenCache :
               /\ cli[Host].ephemeralTokenCache[pl].tokenId = t
               /\ t \in DOMAIN meta.serviceTokens
               /\ Expired(meta.serviceTokens[t]))
           => ~getPEK(t, issued[t]).ok

\* the process has exited, the cleanup of its token failed, six hours have
\* passed: the record is still in the store and its secret unwraps the PEK
C28_Witness ==
    /\ cli[Host].exited
    /\ \E t \in cli[Host].swallowed :
          /\ t \in DOMAIN meta.serviceTokens
          /\ Expired(meta.serviceTokens[t])
          /\ getPEK(t, issued[t]).ok

\* the tokens the process registered for cleanup
Registered(q) ==
    {cli[q].tokensToCleanup[i] : i \in 1..Len(cli[q].tokensToCleanup)}

\* C29: when the process has exited from its signal handler, having
\* received one signal, the handler has taken up every registered token in
\* turn, and every registered token whose cleanup raised no error is gone
\* from the token map; with no error none of them is left
C29_SignalCleanupRemovesRegisteredTokens ==
    \A q \in {Host} :
        (cli[q].exited /\ Len(cli[q].handlers) = 1) =>
            /\ Registered(q) # {} =>
                  cli[q].handlers[1].i = Len(cli[q].tokensToCleanup) + 1
            /\ \A t \in Registered(q) \ cli[q].swallowed :
                  t \notin DOMAIN meta.serviceTokens

\* the process registered two tokens and has exited from its handler: the
\* cleanup of the first raised an error, the second was removed
C29_Witness ==
    /\ cli[Host].exited
    /\ Len(cli[Host].handlers) = 1
    /\ Len(cli[Host].tokensToCleanup) = 2
    /\ cli[Host].swallowed = {cli[Host].tokensToCleanup[1]}
    /\ cli[Host].tokensToCleanup[1] \in DOMAIN meta.serviceTokens
    /\ cli[Host].tokensToCleanup[2] \notin DOMAIN meta.serviceTokens

\* the revocation of the clients' token has completed
TokenRevoked == DOMAIN issued # {} /\ ClientTokenId \in revoked

\* C30: a get or load called after the revocation of the client's token has
\* completed returns no secrets, and a set called after it does not go on
\* to write
C30_RevokedTokenLosesAccess ==
    [][TokenRevoked =>
          /\ Get(Client1) =>
                ~(/\ gets'[Client1].served = "cache"
                  /\ DOMAIN gets'[Client1].map # {})
          /\ \A k \in SecretKeys, v \in Plaintexts :
                SetCall(k, v) => proc'[Proc1].pc = "idle"]_vars

\* the token is revoked and the entry fetched with it is still fresh: the
\* client's get has been answered from it with the project's secrets
C30_Witness ==
    /\ TokenRevoked
    /\ ~getPEK(ClientTokenId, issued[ClientTokenId]).ok
    /\ CachedEntry.present
    /\ CachedEntry.createdTime < now
    /\ age(CachedEntry) < cachifiedTtl(CacheOptions)
    /\ DOMAIN CachedEntry.value # {}
    /\ gets[Client1].served = "cache"
    /\ gets[Client1].observed = "Fresh"
    /\ gets[Client1].map = CachedEntry.value
    /\ proc[Proc1].result = "InvalidToken"


(***************************************************************************)
(* C31: an operation on a project whose metadata hash is absent fails with *)
(* a not-found error and writes nothing: writeSecret reports               *)
(* PROJECT_NOT_FOUND without encrypting (no IV is drawn) or storing, and   *)
(* setSecret ends in getPEK with the project-not-found error whatever the  *)
(* credentials are, before any token lookup or key derivation.             *)
(***************************************************************************)
C31_AbsentProjectIsNotFoundAndUntouched ==
    [][~meta.exists =>
          /\ WriteRead(Proc1) =>
                /\ proc'[Proc1].pc = "idle"
                /\ proc'[Proc1].result = "PROJECT_NOT_FOUND"
                /\ clock' = clock
                /\ env' = env
                /\ meta' = meta
                /\ assigned' = assigned
          /\ \A k \in SecretKeys, v \in Plaintexts,
                cred \in ClientCredentials :
                SetSecret(Proc1, k, v, cred.tokenId, cred.token) =>
                   /\ proc'[Proc1].pc = "idle"
                   /\ proc'[Proc1].result = "ProjectNotFound"
                   /\ env' = env
                   /\ meta' = meta]_vars

\* the project was dropped under a write that had unwrapped the PEK, and
\* the write has failed without storing anything
C31_Witness ==
    /\ ~meta.exists
    /\ DOMAIN issued # {}
    /\ env = <<>>
    /\ proc[Proc1].result = "PROJECT_NOT_FOUND"


C33_OneEphemeralTokenPerPlugin ==
    /\ Cardinality(DOMAIN issued)
          <= Cardinality(DOMAIN cli[Host].ephemeralTokenCache)
    /\ Len(cli[Host].tokensToCleanup)
          <= Cardinality(DOMAIN cli[Host].ephemeralTokenCache)
    /\ \A q \in TProcs :
          tproc[q].op = "ephemeral" /\ tproc[q].pc = "store" =>
             tproc[q].plugin \notin DOMAIN cli[Host].ephemeralTokenCache

\* two calls for one plugin have both returned: two pairs were handed out
\* and two entries registered, and the cache holds the later pair
C33_Witness ==
    /\ Cardinality(DOMAIN issued) = 2
    /\ Len(cli[Host].tokensToCleanup) = 2
    /\ DOMAIN cli[Host].ephemeralTokenCache = {Plugin1}
    /\ \A q \in TProcs : tproc[q].result = "ephemeral-issued"
    /\ cli[Host].ephemeralTokenCache[Plugin1].tokenId
          = cli[Host].tokensToCleanup[2]


(***************************************************************************)
(* C34: once the revocation of a token has completed, its record is never  *)
(* in the project's token map again, whatever issuances, revocations and   *)
(* shutdown cleanups overlap with it.                                      *)
(***************************************************************************)
C34_RevokedRecordNeverReappears ==
    \A t \in revoked : t \notin DOMAIN meta.serviceTokens

\* the revocation of a service token has completed, and the token is in
\* the map again next to nothing but itself: the shutdown cleanup, which
\* had read the map before the revocation, wrote it back without the
\* ephemeral token only
C34_Witness ==
    \E t \in revoked :
        /\ ~isEphemeral(tproc[Host].entry)
        /\ DOMAIN meta.serviceTokens = {t}
        /\ cli[Host].exited
        /\ Len(cli[Host].tokensToCleanup) = 1
        /\ \A q \in TProcs : tproc[q].pc = "idle"


\* the shutdown handler h of process q has gone past the token
CleanedUp(q, t) ==
    \E h \in 1..Len(cli[q].handlers), i \in 1..Len(cli[q].tokensToCleanup) :
        /\ cli[q].tokensToCleanup[i] = t
        /\ cli[q].handlers[h].i > i

(***************************************************************************)
(* C35: a service or ephemeral token whose issuance has completed stays in *)
(* the token map, and its secret unwraps the PEK, until it is itself       *)
(* revoked or cleaned up, whatever issuances, revocations and cleanups of  *)
(* other tokens overlap.                                                   *)
(***************************************************************************)
C35_IssuedTokenStaysUsable ==
    \A t \in DOMAIN issued :
        t \notin revoked /\ ~CleanedUp(Host, t) =>
           /\ t \in DOMAIN meta.serviceTokens
           /\ getPEK(t, issued[t]).ok
           /\ getPEK(t, issued[t]).pek = pek0

\* an ephemeral token was issued to a plugin and no signal has arrived, no
\* token was ever revoked, and the token is gone from the map: a token
\* create that had read the map before wrote it back without it
C35_Witness ==
    /\ revoked = {}
    /\ cli[Host].handlers = <<>>
    /\ Plugin1 \in DOMAIN cli[Host].ephemeralTokenCache
    /\ cli[Host].ephemeralTokenCache[Plugin1].tokenId
          \notin DOMAIN meta.serviceTokens
    /\ ~getPEK(cli[Host].ephemeralTokenCache[Plugin1].tokenId,
               cli[Host].ephemeralTokenCache[Plugin1].token).ok
    /\ \A q \in TProcs : tproc[q].pc = "idle"


(***************************************************************************)
(* C36: a client whose token id and secret cannot unwrap the PEK never     *)
(* receives a secret plaintext from get or load, even when another client  *)
(* instance of the process has filled the cache entry of the same project  *)
(* and environment.                                                        *)
(***************************************************************************)
C36_ClientWithoutKeyGetsNoPlaintext ==
    ~getPEK(Client2Options.tokenId, Client2Options.token).ok =>
        DOMAIN gets[Client2].map = {}

\* the first client has fetched the secrets, and the second, whose
\* credentials getPEK refuses, has been answered from the cache with them
C36_Witness ==
    /\ DOMAIN issued # {}
    /\ ~getPEK(Client2Options.tokenId, Client2Options.token).ok
    /\ getPEK(ClientTokenId, issued[ClientTokenId]).ok
    /\ gets[Client1].served = "fetch"
    /\ gets[Client2].served = "cache"
    /\ gets[Client2].map = gets[Client1].map
    /\ \E k \in DOMAIN gets[Client2].map :
          gets[Client2].map[k] \in Plaintexts


(***************************************************************************)
(* C37: once set(key, value) has returned and no other write has begun,    *)
(* every get the client makes afterwards returns a map in which the key    *)
(* has the value, also when a background refresh that had read the store   *)
(* before the write returns after the set.                                 *)
(***************************************************************************)
C37_GetAfterSetReturnsTheValue ==
    [][proc[Proc1].result = "returned" =>
          /\ (Get(Client1) /\ gets'[Client1].served = "cache") =>
                \A k \in DOMAIN Written :
                    /\ k \in DOMAIN gets'[Client1].map
                    /\ gets'[Client1].map[k] = Written[k]
          /\ (GetFreshValueReturn(Client1, "blocking")
                 /\ gets[Client1].waiting) =>
                \A k \in DOMAIN Written :
                    /\ k \in DOMAIN gets'[Client1].map
                    /\ gets'[Client1].map[k] = Written[k]]_vars

\* the set has returned and deleted the entry, a refresh that was in
\* flight has then cached the map it had read before the write, and the
\* next get was answered from that entry with the old value
C37_Witness ==
    /\ proc[Proc1].result = "returned"
    /\ gets[Client1].served = "cache"
    /\ gets[Client1].observed = "Fresh"
    /\ StoredSecrets = Written
    /\ \E k \in DOMAIN Written :
          /\ k \in DOMAIN gets[Client1].map
          /\ gets[Client1].map[k] # Written[k]
    /\ \A kind \in Kinds : fetch[Client1][kind].pc = "idle"


(***************************************************************************)
(* C38: in every reachable state, overlapping writes to one key included,  *)
(* each stored history is newest first: the version numbers go down by     *)
(* exactly 1 from the head to the tail, and the head carries the largest.  *)
(***************************************************************************)
C38_HistoriesDescendByOne ==
    \A k \in DOMAIN env :
        /\ Len(env[k]) > 0
        /\ \A i \in 1..(Len(env[k]) - 1) :
              env[k][i].version = env[k][i + 1].version + 1
        /\ \A v \in Versions(env[k]) : v <= env[k][1].version

\* two writes to the key overlapped, one of the versions they stored is
\* no longer in the history, and the history holds two versions
C38_Witness ==
    /\ overlapped[RaceKey]
    /\ RaceKey \in DOMAIN env
    /\ Len(env[RaceKey]) = 2
    /\ env[RaceKey][1].version = env[RaceKey][2].version + 1
    /\ \E a \in assigned : a.key = RaceKey /\ a.rec \notin Records(env[RaceKey])
    /\ \A p \in Procs : proc[p].pc = "idle"


(***************************************************************************)
(* C39: overlapping writeSecret calls to different secret keys, of one     *)
(* environment or of two, do not interfere: the history a call stores is   *)
(* the one it would have stored with no other call running (the new        *)
(* version, numbered head + 1, in front of the history the field has at    *)
(* that moment, trimmed to the limit), every other field of the            *)
(* environment hashes keeps its value, and the metadata is not changed.    *)
(***************************************************************************)
C39_WritesToOtherKeysDoNotInterfere ==
    [][\A p \in Procs :
          /\ WriteRead(p) => env' = env /\ meta' = meta
          /\ WriteStore(p) =>
                LET k == proc[p].key
                    old == historyOf(k)
                    alone == [version |-> nextVersion(old),
                              value |-> encrypt(proc[p].value, proc[p].pek,
                                                proc[p].rec.createdAt),
                              user |-> proc[p].user,
                              createdAt |-> proc[p].rec.createdAt]
                IN /\ env'[k] = trimmedHistory(alone, old, limitOf(meta))
                   /\ DOMAIN env' = DOMAIN env \cup {k}
                   /\ \A x \in DOMAIN env \ {k} : env'[x] = env[x]
                   /\ meta' = meta]_vars

\* a write to one key has stored its second version while a write to
\* another key, which had read before it, is still to store
C39_Witness ==
    \E p \in Procs, o \in Procs :
        /\ proc[p].pc = "store"
        /\ proc[o].result = "updated"
        /\ \E k \in DOMAIN env \ {proc[p].key} :
              /\ env[k][1].createdAt > proc[p].rec.createdAt
              /\ Len(env[k]) = 2

====
